---- MODULE Spec2Model ----
(***************************************************************************)
(* Forensic Chainguard: the evidence lifecycle contract (ForensicContract) *)
(* running on a versioned key-value ledger.                                *)
(*                                                                         *)
(* The world state maps composite keys to JSON documents, the ledger is    *)
(* the sequence of committed transactions with their write sets, and       *)
(* every contract method is an operator from (world state, input,          *)
(* transaction context) to an outcome, translated from the contract code.  *)
(***************************************************************************)
EXTENDS Integers, Sequences, FiniteSets, TLC

VARIABLES
    state,    \* world state: composite key -> stored JSON document
    ledger,   \* committed transactions, in commit order
    inflight, \* transactions simulated by the contract and not yet validated
    uploads,  \* the upload directory of the API server: file name -> content
    reply     \* the last response of the API server

vars == <<state, ledger, inflight, uploads, reply>>

(***************************************************************************)
(* Bounds of the model.                                                    *)
(***************************************************************************)
\* committed transactions per behaviour
MaxTx == 3

(***************************************************************************)
(* JavaScript values.  undefined is Absent; a string is falsy when it is   *)
(* undefined or empty.  An optional object is a sequence of length <= 1.   *)
(***************************************************************************)
Absent == "<undefined>"

\* a test for undefined only, which lets the empty string pass
FalsyWhenUndefined(v) == v = Absent

Falsy(v) == v = Absent \/ v = ""

\* a || b on strings
OrElse(a, b) == IF Falsy(a) THEN b ELSE a

(***************************************************************************)
(* Strings as code units, for the keys of the store.                       *)
(***************************************************************************)
Code(s) ==
    CASE s = "" -> <<>>
      [] s = "E" -> <<69>>
      [] s = "E1" -> <<69, 49>>
      [] s = "EVIDENCE" -> <<69, 86, 73, 68, 69, 78, 67, 69>>
      [] s = "EVIDENCE_EVENT" ->
            <<69, 86, 73, 68, 69, 78, 67, 69, 95, 69, 86, 69, 78, 84>>
      [] s = "a" -> <<97>>
      [] s = "b" -> <<98>>
      [] s = "c" -> <<99>>
      [] s = "d" -> <<100>>
      [] s = "e" -> <<101>>

\* the transaction ids the ledger hands out, one per transaction, in this order
TxIdNames == <<"a", "b", "c", "d", "e">>

RECURSIVE LexLess(_, _)
\* strict lexicographic order on code-unit sequences
LexLess(x, y) ==
    IF y = <<>> THEN FALSE
    ELSE IF x = <<>> THEN TRUE
    ELSE IF Head(x) # Head(y) THEN Head(x) < Head(y)
    ELSE LexLess(Tail(x), Tail(y))

RECURSIVE Concat(_)
Concat(seqs) == IF seqs = <<>> THEN <<>> ELSE Head(seqs) \o Concat(Tail(seqs))

\* stub.createCompositeKey: namespace U+0000, then the object type and every
\* attribute, each terminated by U+0000
createCompositeKey(objectType, attributes) ==
    <<0>> \o Code(objectType) \o <<0>>
          \o Concat([i \in 1..Len(attributes) |-> Code(attributes[i]) \o <<0>>])

\* a record key that leaves the evidence id out
evidenceKeyWithoutId(evidenceId) == createCompositeKey("EVIDENCE", <<>>)

evidenceKey(evidenceId) == createCompositeKey("EVIDENCE", <<evidenceId>>)

\* an event key that leaves the transaction id out
evidenceEventKeyPerEvidence(evidenceId, txId) ==
    createCompositeKey("EVIDENCE_EVENT", <<evidenceId>>)

evidenceEventKey(evidenceId, txId) ==
    createCompositeKey("EVIDENCE_EVENT", <<evidenceId, txId>>)

(***************************************************************************)
(* JSON.  stringify drops the members whose value is undefined; parse      *)
(* yields undefined for every member the document lacks.                   *)
(***************************************************************************)
RecordFields ==
    {"evidenceId", "caseIdHash", "description", "status", "imageHash",
     "imageFilename", "createdBy", "role", "currentCustodian",
     "createdAt", "updatedAt"}

EventFields ==
    {"evidenceId", "txId", "eventType", "timestamp", "performedBy", "role",
     "notes", "fromCustodian", "toCustodian", "imageHash", "imageFilename",
     "cert"}

NumberFields == {"createdAt", "updatedAt", "timestamp"}

JSONstringify(obj) ==
    LET kept == {f \in DOMAIN obj : f \in NumberFields \/ obj[f] # Absent}
    IN  [f \in kept |-> obj[f]]

JSONparse(doc, fields) ==
    [f \in fields |-> IF f \in DOMAIN doc THEN doc[f] ELSE Absent]

(***************************************************************************)
(* The stub: reads go to the committed world state, writes to the write    *)
(* set of the running transaction.                                         *)
(***************************************************************************)
\* ForensicContract.get: undefined (the empty sequence) when the key holds nothing
get(st, key, fields) ==
    IF key \in DOMAIN st THEN <<JSONparse(st[key], fields)>> ELSE <<>>

\* ForensicContract.now: milliseconds of the transaction timestamp
now(tx) == tx.seconds * 1000 + (tx.nanos \div 1000000)


(***************************************************************************)
(* Outcome of running a contract method inside one transaction: the error  *)
(* it threw ("OK" when it returned), the puts it had issued when it ended, *)
(* in order, and the value it returned.                                    *)
(***************************************************************************)
Throw(e) == [err |-> e, writes |-> <<>>, ret |-> <<>>]

\* puts issued in the reverse order: the event append before the record write
putEventFirst(puts, putFail) ==
    LET reversed == [i \in 1..Len(puts) |-> puts[Len(puts) + 1 - i]]
    IN  IF putFail \in 1..Len(puts)
        THEN [err |-> "STORE_ERROR", writes |-> SubSeq(reversed, 1, putFail - 1),
              ret |-> <<>>]
        ELSE [err |-> "OK", writes |-> reversed, ret |-> <<>>]

\* put that swallows the store's refusal and lets the method go on
putIgnoringRefusal(puts, putFail) ==
    [err |-> "OK",
     writes |-> [i \in 1..(Len(puts) - (IF putFail \in 1..Len(puts) THEN 1 ELSE 0)) |->
                    IF putFail \in 1..Len(puts) /\ i >= putFail
                    THEN puts[i + 1] ELSE puts[i]],
     ret |-> <<>>]

\* ForensicContract.put, called for each element of puts in order: putState
\* number putFail (0: none) is refused by the store and the method ends there
put(puts, putFail) ==
    IF putFail \in 1..Len(puts)
    THEN [err |-> "STORE_ERROR", writes |-> SubSeq(puts, 1, putFail - 1),
          ret |-> <<>>]
    ELSE [err |-> "OK", writes |-> puts, ret |-> <<>>]

\* a gate that tests the role only when the request carries one
assertRoleWhenPresent(role, allowed) ==
    IF Falsy(role) THEN "OK"
    ELSE IF role \notin allowed THEN "ACCESS_DENIED"
    ELSE "OK"

\* a gate that lets every role pass that is declared at all
assertRoleDeclared(role, allowed) ==
    IF Falsy(role) THEN "ACCESS_DENIED" ELSE "OK"

\* ForensicContract.assertRole
assertRole(role, allowed) ==
    IF Falsy(role) THEN "ACCESS_DENIED"
    ELSE IF role \notin allowed THEN "ACCESS_DENIED"
    ELSE "OK"

\* an append that finds no id on the transaction and files the event under
\* the empty id
appendEventWithoutTxId(evidenceId, event, tx) ==
    LET txId == ""
        key == evidenceEventKey(evidenceId, txId)
        fullEvent == [f \in EventFields |->
                        IF f = "evidenceId" THEN evidenceId
                        ELSE IF f = "txId" THEN txId
                        ELSE event[f]]
    IN  <<key, JSONstringify(fullEvent)>>

\* ForensicContract.appendEvent: the put of the full event under
\* (EVIDENCE_EVENT, evidenceId, txId)
appendEvent(evidenceId, event, tx) ==
    LET txId == tx.id
        key == evidenceEventKey(evidenceId, txId)
        fullEvent == [f \in EventFields |->
                        IF f = "evidenceId" THEN evidenceId
                        ELSE IF f = "txId" THEN txId
                        ELSE event[f]]
    IN  <<key, JSONstringify(fullEvent)>>

\* an event literal: the members the caller does not name are undefined
Event(named) ==
    [f \in EventFields \ {"evidenceId", "txId"} |->
        IF f \in DOMAIN named THEN named[f] ELSE Absent]

\* the role lists the methods pass to assertRole
CreateRolesManagerOnly == {"EvidenceManager"}
CreateRoles == {"ForensicTechnician", "EvidenceManager"}
CheckInRoles == {"ForensicTechnician", "EvidenceManager"}
TransferRolesAsCheckIn == {"ForensicTechnician", "EvidenceManager"}
TransferRoles == {"EvidenceManager"}
\* a removal open to technicians as well
RemoveRolesWithTechnician == {"ForensicTechnician", "EvidenceManager"}

RemoveRoles == {"EvidenceManager"}

\* CreateEvidence without the lookup of an existing record
CreateChecksNoLookup(st, input) ==
    IF Falsy(input.evidenceId) \/ Falsy(input.caseIdHash)
    THEN "VALIDATION_ERROR"
    ELSE assertRole(input.role, CreateRoles)

\* a creation that accepts the id of a removed record again
CreateChecksReusingRemoved(st, input) ==
    IF Falsy(input.evidenceId) \/ Falsy(input.caseIdHash)
    THEN "VALIDATION_ERROR"
    ELSE IF assertRole(input.role, CreateRoles) # "OK"
    THEN assertRole(input.role, CreateRoles)
    ELSE IF /\ get(st, evidenceKey(input.evidenceId), RecordFields) # <<>>
            /\ get(st, evidenceKey(input.evidenceId), RecordFields)[1].status
                  # "REMOVED"
    THEN "ALREADY_EXISTS"
    ELSE "OK"

\* ForensicContract.CreateEvidence, up to its last throw: the error thrown,
\* or "OK" when the method goes on to write
CreateChecks(st, input) ==
    IF Falsy(input.evidenceId) \/ Falsy(input.caseIdHash)
    THEN "VALIDATION_ERROR"
    ELSE IF assertRole(input.role, CreateRoles) # "OK"
    THEN assertRole(input.role, CreateRoles)
    ELSE IF get(st, evidenceKey(input.evidenceId), RecordFields) # <<>>
    THEN "ALREADY_EXISTS"
    ELSE "OK"

\* a creating actor taken from createdBy before performedBy
CreatedByField(input) ==
    OrElse(input.createdBy, OrElse(input.performedBy, "unknown"))

\* ForensicContract.CreateEvidence: the creating actor
CreatedBy(input) ==
    OrElse(input.performedBy, OrElse(input.createdBy, "unknown"))

\* a creation that puts the record and appends no event
CreateEvidenceUnlogged(st, input, tx, putFail) ==
    IF CreateChecks(st, input) # "OK" THEN Throw(CreateChecks(st, input))
    ELSE
    LET key == evidenceKey(input.evidenceId)
    IN  LET nowMs == now(tx)
            createdBy == CreatedBy(input)
            rec == [evidenceId |-> input.evidenceId,
                    caseIdHash |-> input.caseIdHash,
                    description |-> input.description,
                    status |-> "CREATED",
                    imageHash |-> input.imageHash,
                    imageFilename |-> input.imageFilename,
                    createdBy |-> createdBy,
                    role |-> OrElse(input.role, "Unknown"),
                    currentCustodian |-> OrElse(input.currentCustodian, createdBy),
                    createdAt |-> nowMs,
                    updatedAt |-> nowMs]
        IN  put(<< <<key, JSONstringify(rec)>> >>, putFail)

\* ForensicContract.CreateEvidence
CreateEvidence(st, input, tx, putFail) ==
    IF CreateChecks(st, input) # "OK" THEN Throw(CreateChecks(st, input))
    ELSE
    LET key == evidenceKey(input.evidenceId)
    IN  LET nowMs == now(tx)
            createdBy == CreatedBy(input)
            rec == [evidenceId |-> input.evidenceId,
                    caseIdHash |-> input.caseIdHash,
                    description |-> input.description,
                    status |-> "CREATED",
                    imageHash |-> input.imageHash,
                    imageFilename |-> input.imageFilename,
                    createdBy |-> createdBy,
                    role |-> OrElse(input.role, "Unknown"),
                    currentCustodian |-> OrElse(input.currentCustodian, createdBy),
                    createdAt |-> nowMs,
                    updatedAt |-> nowMs]
            event == Event([eventType |-> "CREATED",
                            timestamp |-> nowMs,
                            performedBy |-> createdBy,
                            role |-> rec.role,
                            notes |-> OrElse(input.notes, rec.description),
                            imageHash |-> input.imageHash,
                            imageFilename |-> input.imageFilename,
                            cert |-> input.cert])
        IN  put(<< <<key, JSONstringify(rec)>>,
                   appendEvent(input.evidenceId, event, tx) >>, putFail)

\* CheckInEvidence without the test for a removed record
CheckInChecksNoRemovedTest(st, input) ==
    IF Falsy(input.evidenceId)
    THEN "VALIDATION_ERROR"
    ELSE IF assertRole(input.role, CheckInRoles) # "OK"
    THEN assertRole(input.role, CheckInRoles)
    ELSE IF get(st, evidenceKey(input.evidenceId), RecordFields) = <<>>
    THEN "NOT_FOUND"
    ELSE "OK"

\* a check-in that asks for the role before it looks at the required fields
CheckInChecksRoleFirst(st, input) ==
    IF assertRole(input.role, CheckInRoles) # "OK"
    THEN assertRole(input.role, CheckInRoles)
    ELSE IF Falsy(input.evidenceId)
    THEN "VALIDATION_ERROR"
    ELSE IF get(st, evidenceKey(input.evidenceId), RecordFields) = <<>>
    THEN "NOT_FOUND"
    ELSE IF get(st, evidenceKey(input.evidenceId), RecordFields)[1].status = "REMOVED"
    THEN "INVALID_STATE"
    ELSE "OK"

\* a check-in that insists on alternation: it refuses a record that is
\* checked in already
CheckInChecksAlternating(st, input) ==
    IF Falsy(input.evidenceId)
    THEN "VALIDATION_ERROR"
    ELSE IF assertRole(input.role, CheckInRoles) # "OK"
    THEN assertRole(input.role, CheckInRoles)
    ELSE IF get(st, evidenceKey(input.evidenceId), RecordFields) = <<>>
    THEN "NOT_FOUND"
    ELSE IF get(st, evidenceKey(input.evidenceId), RecordFields)[1].status
              \in {"REMOVED", "CHECKED_IN"}
    THEN "INVALID_STATE"
    ELSE "OK"

\* ForensicContract.CheckInEvidence, up to its last throw: the error thrown,
\* or "OK" when the method goes on to write
CheckInChecks(st, input) ==
    IF Falsy(input.evidenceId)
    THEN "VALIDATION_ERROR"
    ELSE IF assertRole(input.role, CheckInRoles) # "OK"
    THEN assertRole(input.role, CheckInRoles)
    ELSE IF get(st, evidenceKey(input.evidenceId), RecordFields) = <<>>
    THEN "NOT_FOUND"
    ELSE IF get(st, evidenceKey(input.evidenceId), RecordFields)[1].status = "REMOVED"
    THEN "INVALID_STATE"
    ELSE "OK"

\* a check-in that hands the evidence to the actor when no custodian is named
CheckInCustodianActor(input, rec, performedBy) ==
    OrElse(input.custodian, performedBy)

\* a check-in that takes the custodian from the request alone
CheckInCustodianAsNamed(input, rec, performedBy) == input.custodian

\* ForensicContract.CheckInEvidence: the custodian after the check-in
CheckInCustodian(input, rec, performedBy) ==
    OrElse(input.custodian, OrElse(rec.currentCustodian, performedBy))

\* a check-in that writes the record before it tests for a removed record
CheckInEvidenceWriteFirst(st, input, tx, putFail) ==
    IF CheckInChecksNoRemovedTest(st, input) # "OK"
    THEN Throw(CheckInChecksNoRemovedTest(st, input))
    ELSE
    LET key == evidenceKey(input.evidenceId)
        got == get(st, key, RecordFields)
    IN  LET nowMs == now(tx)
            performedBy == OrElse(input.performedBy, "unknown")
            rec == [got[1] EXCEPT
                      !.status = "CHECKED_IN",
                      !.currentCustodian =
                          CheckInCustodian(input, got[1], performedBy),
                      !.role = OrElse(input.role, @),
                      !.updatedAt = nowMs]
            event == Event([eventType |-> "CHECKED_IN",
                            timestamp |-> nowMs,
                            performedBy |-> performedBy,
                            role |-> rec.role,
                            notes |-> input.notes,
                            toCustodian |-> rec.currentCustodian,
                            cert |-> input.cert])
        IN  IF got[1].status = "REMOVED"
            THEN [err |-> "INVALID_STATE",
                  writes |-> << <<key, JSONstringify(rec)>> >>, ret |-> <<>>]
            ELSE put(<< <<key, JSONstringify(rec)>>,
                        appendEvent(input.evidenceId, event, tx) >>, putFail)

\* ForensicContract.CheckInEvidence
CheckInEvidence(st, input, tx, putFail) ==
    IF CheckInChecks(st, input) # "OK" THEN Throw(CheckInChecks(st, input))
    ELSE
    LET key == evidenceKey(input.evidenceId)
        got == get(st, key, RecordFields)
    IN  LET nowMs == now(tx)
            performedBy == OrElse(input.performedBy, "unknown")
            rec == [got[1] EXCEPT
                      !.status = "CHECKED_IN",
                      !.currentCustodian =
                          CheckInCustodian(input, got[1], performedBy),
                      !.role = OrElse(input.role, @),
                      !.updatedAt = nowMs]
            event == Event([eventType |-> "CHECKED_IN",
                            timestamp |-> nowMs,
                            performedBy |-> performedBy,
                            role |-> rec.role,
                            notes |-> input.notes,
                            toCustodian |-> rec.currentCustodian,
                            cert |-> input.cert])
        IN  put(<< <<key, JSONstringify(rec)>>,
                   appendEvent(input.evidenceId, event, tx) >>, putFail)

\* the custodian the evidence leaves, with the record asked first
TransferFromRecordFirst(input, rec) ==
    OrElse(rec.currentCustodian, OrElse(input.fromCustodian, "unknown"))

\* ForensicContract.TransferEvidence: the custodian the evidence leaves
TransferFrom(input, rec) ==
    OrElse(input.fromCustodian, OrElse(rec.currentCustodian, "unknown"))

\* TransferEvidence without the test for a removed record
TransferChecksNoRemovedTest(st, input) ==
    IF Falsy(input.evidenceId) \/ Falsy(input.toCustodian)
    THEN "VALIDATION_ERROR"
    ELSE IF assertRole(input.role, TransferRoles) # "OK"
    THEN assertRole(input.role, TransferRoles)
    ELSE IF get(st, evidenceKey(input.evidenceId), RecordFields) = <<>>
    THEN "NOT_FOUND"
    ELSE "OK"

\* ForensicContract.TransferEvidence, up to its last throw: the error thrown,
\* or "OK" when the method goes on to write
TransferChecks(st, input) ==
    IF Falsy(input.evidenceId) \/ Falsy(input.toCustodian)
    THEN "VALIDATION_ERROR"
    ELSE IF assertRole(input.role, TransferRoles) # "OK"
    THEN assertRole(input.role, TransferRoles)
    ELSE IF get(st, evidenceKey(input.evidenceId), RecordFields) = <<>>
    THEN "NOT_FOUND"
    ELSE IF get(st, evidenceKey(input.evidenceId), RecordFields)[1].status = "REMOVED"
    THEN "INVALID_STATE"
    ELSE "OK"

\* a transfer that leaves updatedAt of the record as it was
TransferEvidenceKeepingUpdatedAt(st, input, tx, putFail) ==
    IF TransferChecks(st, input) # "OK" THEN Throw(TransferChecks(st, input))
    ELSE
    LET key == evidenceKey(input.evidenceId)
        got == get(st, key, RecordFields)
    IN  LET nowMs == now(tx)
            performedBy == OrElse(input.performedBy, "unknown")
            fromCustodian == TransferFrom(input, got[1])
            rec == [got[1] EXCEPT
                      !.status = "TRANSFERRED",
                      !.currentCustodian = input.toCustodian,
                      !.role = OrElse(input.role, @)]
            event == Event([eventType |-> "TRANSFERRED",
                            timestamp |-> nowMs,
                            performedBy |-> performedBy,
                            role |-> rec.role,
                            fromCustodian |-> fromCustodian,
                            toCustodian |-> input.toCustodian,
                            notes |-> input.notes,
                            cert |-> input.cert])
        IN  put(<< <<key, JSONstringify(rec)>>,
                   appendEvent(input.evidenceId, event, tx) >>, putFail)

\* ForensicContract.TransferEvidence
TransferEvidence(st, input, tx, putFail) ==
    IF TransferChecks(st, input) # "OK" THEN Throw(TransferChecks(st, input))
    ELSE
    LET key == evidenceKey(input.evidenceId)
        got == get(st, key, RecordFields)
    IN  LET nowMs == now(tx)
            performedBy == OrElse(input.performedBy, "unknown")
            fromCustodian == TransferFrom(input, got[1])
            rec == [got[1] EXCEPT
                      !.status = "TRANSFERRED",
                      !.currentCustodian = input.toCustodian,
                      !.role = OrElse(input.role, @),
                      !.updatedAt = nowMs]
            event == Event([eventType |-> "TRANSFERRED",
                            timestamp |-> nowMs,
                            performedBy |-> performedBy,
                            role |-> rec.role,
                            fromCustodian |-> fromCustodian,
                            toCustodian |-> input.toCustodian,
                            notes |-> input.notes,
                            cert |-> input.cert])
        IN  put(<< <<key, JSONstringify(rec)>>,
                   appendEvent(input.evidenceId, event, tx) >>, putFail)

\* RemoveEvidence refusing a removed record as check-in and transfer do
RemoveChecksRefusingRemoved(st, input) ==
    IF Falsy(input.evidenceId)
    THEN "VALIDATION_ERROR"
    ELSE IF assertRole(input.role, RemoveRoles) # "OK"
    THEN assertRole(input.role, RemoveRoles)
    ELSE IF get(st, evidenceKey(input.evidenceId), RecordFields) = <<>>
    THEN "NOT_FOUND"
    ELSE IF get(st, evidenceKey(input.evidenceId), RecordFields)[1].status = "REMOVED"
    THEN "INVALID_STATE"
    ELSE "OK"

\* RemoveEvidence looking the record up before it checks the role
RemoveChecksLookupFirst(st, input) ==
    IF Falsy(input.evidenceId)
    THEN "VALIDATION_ERROR"
    ELSE IF get(st, evidenceKey(input.evidenceId), RecordFields) = <<>>
    THEN "NOT_FOUND"
    ELSE assertRole(input.role, RemoveRoles)

\* ForensicContract.RemoveEvidence, up to its last throw: the error thrown,
\* or "OK" when the method goes on to write
RemoveChecks(st, input) ==
    IF Falsy(input.evidenceId)
    THEN "VALIDATION_ERROR"
    ELSE IF assertRole(input.role, RemoveRoles) # "OK"
    THEN assertRole(input.role, RemoveRoles)
    ELSE IF get(st, evidenceKey(input.evidenceId), RecordFields) = <<>>
    THEN "NOT_FOUND"
    ELSE "OK"

\* a removal that takes the evidence out of its custodian's hands
RemoveEvidenceReleasing(st, input, tx, putFail) ==
    IF RemoveChecks(st, input) # "OK" THEN Throw(RemoveChecks(st, input))
    ELSE
    LET key == evidenceKey(input.evidenceId)
        got == get(st, key, RecordFields)
    IN  LET nowMs == now(tx)
            performedBy == OrElse(input.performedBy, "unknown")
            rec == [got[1] EXCEPT
                      !.status = "REMOVED",
                      !.currentCustodian = performedBy,
                      !.role = OrElse(input.role, @),
                      !.updatedAt = nowMs]
            event == Event([eventType |-> "REMOVED",
                            timestamp |-> nowMs,
                            performedBy |-> performedBy,
                            role |-> rec.role,
                            notes |-> input.notes,
                            cert |-> input.cert])
        IN  put(<< <<key, JSONstringify(rec)>>,
                   appendEvent(input.evidenceId, event, tx) >>, putFail)

\* ForensicContract.RemoveEvidence
RemoveEvidence(st, input, tx, putFail) ==
    IF RemoveChecks(st, input) # "OK" THEN Throw(RemoveChecks(st, input))
    ELSE
    LET key == evidenceKey(input.evidenceId)
        got == get(st, key, RecordFields)
    IN  LET nowMs == now(tx)
            performedBy == OrElse(input.performedBy, "unknown")
            rec == [got[1] EXCEPT
                      !.status = "REMOVED",
                      !.role = OrElse(input.role, @),
                      !.updatedAt = nowMs]
            event == Event([eventType |-> "REMOVED",
                            timestamp |-> nowMs,
                            performedBy |-> performedBy,
                            role |-> rec.role,
                            notes |-> input.notes,
                            cert |-> input.cert])
        IN  put(<< <<key, JSONstringify(rec)>>,
                   appendEvent(input.evidenceId, event, tx) >>, putFail)

(***************************************************************************)
(* The keys a mutating method has read through get when it reaches its     *)
(* puts: the record key of its evidence id, and nothing else.              *)
(***************************************************************************)
\* a create that writes without looking for an existing record
CreateReadsNothing(input) == {}

CreateReads(input) == {evidenceKey(input.evidenceId)}

\* a check-in that writes without reading the stored record
CheckInReadsNothing(input) == {}

CheckInReads(input) == {evidenceKey(input.evidenceId)}

TransferReads(input) == {evidenceKey(input.evidenceId)}

RemoveReads(input) == {evidenceKey(input.evidenceId)}

(***************************************************************************)
(* The ledger side: range scans, key history and commit.                   *)
(***************************************************************************)
RECURSIVE InKeyOrder(_)
\* the keys of a set as a sequence in ascending lexicographic order
InKeyOrder(keys) ==
    IF keys = {} THEN <<>>
    ELSE LET least == CHOOSE k \in keys : \A other \in keys \ {k} : LexLess(k, other)
         IN  <<least>> \o InKeyOrder(keys \ {least})

\* a scan whose partial key lacks the terminator of its last part
getStateByKeyPrefix(st, objectType, attributes) ==
    LET partialKey == createCompositeKey(objectType, attributes)
        startKey == SubSeq(partialKey, 1, Len(partialKey) - 1)
        endKey == startKey \o <<1114111>>
        hits == {k \in DOMAIN st :
                    (k = startKey \/ LexLess(startKey, k)) /\ LexLess(k, endKey)}
        order == InKeyOrder(hits)
    IN  [i \in 1..Len(order) |-> [key |-> order[i], value |-> st[order[i]]]]

\* stub.getStateByPartialCompositeKey: the range from the partial key up to
\* the partial key followed by the largest code point, in key order
getStateByPartialCompositeKey(st, objectType, attributes) ==
    LET startKey == createCompositeKey(objectType, attributes)
        endKey == startKey \o <<1114111>>
        hits == {k \in DOMAIN st :
                    (k = startKey \/ LexLess(startKey, k)) /\ LexLess(k, endKey)}
        order == InKeyOrder(hits)
    IN  [i \in 1..Len(order) |-> [key |-> order[i], value |-> st[order[i]]]]

RECURSIVE WritesTo(_, _)
\* the value a write set leaves under key (the last put wins), as an option
WritesTo(writes, key) ==
    IF writes = <<>> THEN <<>>
    ELSE LET rest == WritesTo(Tail(writes), key)
         IN  IF rest # <<>> THEN rest
             ELSE IF Head(writes)[1] = key THEN <<Head(writes)[2]>>
             ELSE <<>>

\* stub.getHistoryForKey: one entry per committed transaction that wrote key
getHistoryForKey(led, key) ==
    LET idx == {i \in 1..Len(led) : WritesTo(led[i].writes, key) # <<>>}
        RECURSIVE Collect(_)
        Collect(i) ==
            IF i > Len(led) THEN <<>>
            ELSE IF i \in idx
            THEN <<[txId |-> led[i].txId,
                    timestamp |-> [seconds |-> led[i].seconds,
                                   nanos |-> led[i].nanos],
                    isDelete |-> FALSE,
                    value |-> WritesTo(led[i].writes, key)[1]]>> \o Collect(i + 1)
            ELSE Collect(i + 1)
    IN  Collect(1)

\* a transaction whose method threw is not committed: its puts are dropped;
\* one that returned has all its puts applied together
Commit(st, outcome) ==
    IF outcome.err # "OK" THEN st
    ELSE LET written == {outcome.writes[i][1] : i \in 1..Len(outcome.writes)}
         IN  [k \in DOMAIN st \cup written |->
                 IF k \in written THEN WritesTo(outcome.writes, k)[1] ELSE st[k]]

(***************************************************************************)
(* Read methods.                                                           *)
(***************************************************************************)
\* a read that answers a missing record with an empty result
GetEvidenceOrNothing(st, evidenceId) ==
    LET key == evidenceKey(evidenceId)
        rec == get(st, key, RecordFields)
    IN  IF rec = <<>> THEN [err |-> "OK", writes |-> <<>>, ret |-> <<>>]
        ELSE [err |-> "OK", writes |-> <<>>, ret |-> <<JSONstringify(rec[1])>>]

\* ForensicContract.GetEvidence
GetEvidence(st, evidenceId) ==
    LET key == evidenceKey(evidenceId)
        rec == get(st, key, RecordFields)
    IN  IF rec = <<>> THEN Throw("NOT_FOUND")
        ELSE [err |-> "OK", writes |-> <<>>, ret |-> <<JSONstringify(rec[1])>>]

\* ForensicContract.GetEvidenceHistory
GetEvidenceHistory(led, evidenceId) ==
    LET key == evidenceKey(evidenceId)
        iter == getHistoryForKey(led, key)
        out == [i \in 1..Len(iter) |->
                  [txId |-> iter[i].txId,
                   timestamp |-> iter[i].timestamp.seconds * 1000
                                   + (iter[i].timestamp.nanos \div 1000000),
                   isDelete |-> iter[i].isDelete,
                   value |-> JSONstringify(JSONparse(iter[i].value, RecordFields))]]
    IN  [err |-> "OK", writes |-> <<>>, ret |-> out]

RECURSIVE InsertByTimestamp(_, _)
\* insert e behind every element that does not come after it
InsertByTimestamp(sorted, e) ==
    IF sorted = <<>> THEN <<e>>
    ELSE IF Head(sorted).timestamp - e.timestamp <= 0
         THEN <<Head(sorted)>> \o InsertByTimestamp(Tail(sorted), e)
         ELSE <<e>> \o sorted

\* the events left in the order of the scan
InScanOrder(events) == events

RECURSIVE SortByTimestamp(_)
\* events.sort((a, b) => a.timestamp - b.timestamp): a stable sort
SortByTimestamp(events) ==
    IF events = <<>> THEN <<>>
    ELSE InsertByTimestamp(SortByTimestamp(SubSeq(events, 1, Len(events) - 1)),
                           events[Len(events)])

\* a read of the events that fails for an id without events
GetEvidenceEventsOrFail(st, evidenceId) ==
    LET iter == getStateByPartialCompositeKey(st, "EVIDENCE_EVENT", <<evidenceId>>)
        events == [i \in 1..Len(iter) |-> JSONparse(iter[i].value, EventFields)]
        sorted == SortByTimestamp(events)
    IN  IF Len(iter) = 0 THEN Throw("NOT_FOUND")
        ELSE [err |-> "OK", writes |-> <<>>,
              ret |-> [i \in 1..Len(sorted) |-> JSONstringify(sorted[i])]]

\* ForensicContract.GetEvidenceEvents
GetEvidenceEvents(st, evidenceId) ==
    LET iter == getStateByPartialCompositeKey(st, "EVIDENCE_EVENT", <<evidenceId>>)
        events == [i \in 1..Len(iter) |-> JSONparse(iter[i].value, EventFields)]
        sorted == SortByTimestamp(events)
    IN  [err |-> "OK", writes |-> <<>>,
         ret |-> [i \in 1..Len(sorted) |-> JSONstringify(sorted[i])]]

(***************************************************************************)
(* The client of the contract.  The result of a query reaches it as a      *)
(* buffer: the JSON text the method returned, of which the model keeps the *)
(* length and the array the text denotes.                                  *)
(***************************************************************************)
\* JSON.stringify(events) as the buffer the client gets: two brackets, and
\* for each element its braces and the comma before it
resultBuffer(docs) ==
    [length |-> IF docs = <<>> THEN 2 ELSE 1 + 3 * Len(docs), array |-> docs]

\* a result without bytes
EmptyBuffer == [length |-> 0, array |-> <<>>]

\* getEvidenceEventsFromChain, applied to the result of evaluateTransaction
getEvidenceEventsFromChain(result) ==
    IF result.length = 0 THEN <<>> ELSE result.array

(***************************************************************************)
(* Inputs the callers may send.                                            *)
(***************************************************************************)
EvidenceIds == {"E", "E1"}
EvidenceIdIn == {Absent, ""} \cup EvidenceIds
CaseIdHashIn == {Absent, "c4se"}
RoleIn == {Absent, "", "ForensicTechnician", "EvidenceManager", "Unknown"}
CustodianIn == {Absent, "LabA"}
ToCustodianIn == {Absent, "", "Court"}
FromCustodianIn == {Absent, "Vault"}

CreateInputs ==
    [evidenceId : EvidenceIdIn, caseIdHash : CaseIdHashIn,
     description : {"phone"}, imageHash : {"h1"}, imageFilename : {"f1"},
     currentCustodian : {Absent}, createdBy : {"bob"},
     performedBy : {"alice"}, role : RoleIn, cert : {Absent},
     notes : {Absent}]

CheckInInputs ==
    [evidenceId : EvidenceIdIn, custodian : CustodianIn,
     performedBy : {"alice"}, role : RoleIn, cert : {Absent},
     notes : {Absent}]

TransferInputs ==
    [evidenceId : EvidenceIdIn, fromCustodian : FromCustodianIn,
     toCustodian : ToCustodianIn, performedBy : {"alice"}, role : RoleIn,
     cert : {Absent}, notes : {Absent}]

RemoveInputs ==
    [evidenceId : EvidenceIdIn, performedBy : {"alice"}, role : RoleIn,
     cert : {Absent}, notes : {Absent}]

\* which putState of a method the store refuses (0: none)
PutFails == 0..2

\* the timestamps a client may put on its transaction
TxSecondsIn == {0, 1}
TxNanosIn == {1999999}

\* the contexts the next transaction may run in: an id no committed
\* transaction has, and the timestamp its client chose
TxContexts(led) ==
    IF Len(led) >= MaxTx THEN {}
    ELSE [id : {TxIdNames[Len(led) + 1]}, seconds : TxSecondsIn, nanos : TxNanosIn]

(***************************************************************************)
(* Transactions.  A transaction whose method throws commits nothing and    *)
(* leaves no trace on the ledger: it is a stuttering step.                 *)
(***************************************************************************)
\* contract.submitTransaction: the method has run with this outcome, and its
\* transaction is committed when it returned
submitTransaction(fn, input, tx, outcome) ==
    /\ state' = Commit(state, outcome)
    /\ ledger' = IF outcome.err = "OK"
                 THEN Append(ledger, [txId |-> tx.id, seconds |-> tx.seconds,
                                      nanos |-> tx.nanos, fn |-> fn,
                                      evidenceId |-> input.evidenceId,
                                      writes |-> outcome.writes])
                 ELSE ledger
    /\ inflight' = inflight

\* a transaction submitted by a client of the contract
Submit(fn, input, tx, outcome) ==
    /\ submitTransaction(fn, input, tx, outcome)
    /\ UNCHANGED <<uploads, reply>>

\* evaluateTransaction: the method runs and nothing is committed
Evaluate(outcome) ==
    /\ outcome.err \in {"OK", "NOT_FOUND"}
    /\ UNCHANGED <<state, ledger, inflight, uploads, reply>>

DoCreateEvidence ==
    \E input \in CreateInputs :
        IF CreateChecks(state, input) # "OK"
        THEN \* the method throws before its first put, whatever the context
             UNCHANGED vars
        ELSE \E tx \in TxContexts(ledger), putFail \in PutFails :
                 Submit("CreateEvidence", input, tx,
                        CreateEvidence(state, input, tx, putFail))

DoCheckInEvidence ==
    \E input \in CheckInInputs :
        IF CheckInChecks(state, input) # "OK"
        THEN \* the method throws before its first put, whatever the context
             UNCHANGED vars
        ELSE \E tx \in TxContexts(ledger), putFail \in PutFails :
                 Submit("CheckInEvidence", input, tx,
                        CheckInEvidence(state, input, tx, putFail))

DoTransferEvidence ==
    \E input \in TransferInputs :
        IF TransferChecks(state, input) # "OK"
        THEN \* the method throws before its first put, whatever the context
             UNCHANGED vars
        ELSE \E tx \in TxContexts(ledger), putFail \in PutFails :
                 Submit("TransferEvidence", input, tx,
                        TransferEvidence(state, input, tx, putFail))

DoRemoveEvidence ==
    \E input \in RemoveInputs :
        IF RemoveChecks(state, input) # "OK"
        THEN \* the method throws before its first put, whatever the context
             UNCHANGED vars
        ELSE \E tx \in TxContexts(ledger), putFail \in PutFails :
                 Submit("RemoveEvidence", input, tx,
                        RemoveEvidence(state, input, tx, putFail))

DoGetEvidence ==
    \E evidenceId \in EvidenceIds \cup {""} :
        Evaluate(GetEvidence(state, evidenceId))

DoGetEvidenceHistory ==
    \E evidenceId \in EvidenceIds \cup {""} :
        Evaluate(GetEvidenceHistory(ledger, evidenceId))

DoGetEvidenceEvents ==
    \E evidenceId \in EvidenceIds \cup {""} :
        Evaluate(GetEvidenceEvents(state, evidenceId))

\* no request answered yet
NoReply == [status |-> 0]

Init ==
    /\ state = <<>>
    /\ ledger = <<>>
    /\ inflight = {}
    /\ uploads = <<>>
    /\ reply = NoReply

Next ==
    \/ DoCreateEvidence
    \/ DoCheckInEvidence
    \/ DoTransferEvidence
    \/ DoRemoveEvidence
    \/ DoGetEvidence
    \/ DoGetEvidenceHistory
    \/ DoGetEvidenceEvents

Spec == Init /\ [][Next]_vars

(***************************************************************************)
(* Concurrent clients.  A transaction is simulated against the committed   *)
(* world state, which yields its read set (each key read, with the version *)
(* read) and its write set; later the store validates it: it is committed  *)
(* when every key it read still has the version it read, and it is         *)
(* aborted, leaving nothing, when a transaction committed in between wrote *)
(* one of them.                                                            *)
(***************************************************************************)
\* the evidence id the concurrent clients work on
ContendedIds == {"E"}

\* the version of a key: the position on the ledger of the transaction that
\* wrote it last (0: never written)
Version(led, key) ==
    LET writers == {i \in 1..Len(led) : WritesTo(led[i].writes, key) # <<>>}
    IN  IF writers = {} THEN 0 ELSE CHOOSE i \in writers : \A j \in writers : j <= i

\* the contexts of a transaction proposed now: an id no committed and no
\* pending transaction has, and the timestamp its client chose
ProposalContexts ==
    IF Len(ledger) + Cardinality(inflight) >= MaxTx THEN {}
    ELSE LET used == {ledger[i].txId : i \in 1..Len(ledger)}
                         \cup {p.txId : p \in inflight}
             free == {i \in 1..Len(TxIdNames) : TxIdNames[i] \notin used}
             first == CHOOSE i \in free : \A j \in free : i <= j
         IN  [id : {TxIdNames[first]}, seconds : TxSecondsIn, nanos : TxNanosIn]

\* the method has run on the committed state with this outcome; when it
\* returned, its read and write sets go to the store for validation
Propose(fn, input, tx, outcome, reads) ==
    /\ inflight' = IF outcome.err = "OK"
                   THEN inflight \cup
                        {[txId |-> tx.id, seconds |-> tx.seconds,
                          nanos |-> tx.nanos, fn |-> fn,
                          evidenceId |-> input.evidenceId,
                          writes |-> outcome.writes,
                          reads |-> {<<key, Version(ledger, key)>> : key \in reads}]}
                   ELSE inflight
    /\ UNCHANGED <<state, ledger, uploads, reply>>

\* no key the transaction read has been written since
Valid(led, proposal) ==
    \A read \in proposal.reads : Version(led, read[1]) = read[2]

ProposeCreateEvidence ==
    \E input \in {i \in CreateInputs : i.evidenceId \in ContendedIds} :
        IF CreateChecks(state, input) # "OK"
        THEN UNCHANGED vars
        ELSE \E tx \in ProposalContexts, putFail \in PutFails :
                 Propose("CreateEvidence", input, tx,
                         CreateEvidence(state, input, tx, putFail),
                         CreateReads(input))

ProposeCheckInEvidence ==
    \E input \in {i \in CheckInInputs : i.evidenceId \in ContendedIds} :
        IF CheckInChecks(state, input) # "OK"
        THEN UNCHANGED vars
        ELSE \E tx \in ProposalContexts, putFail \in PutFails :
                 Propose("CheckInEvidence", input, tx,
                         CheckInEvidence(state, input, tx, putFail),
                         CheckInReads(input))

ProposeTransferEvidence ==
    \E input \in {i \in TransferInputs : i.evidenceId \in ContendedIds} :
        IF TransferChecks(state, input) # "OK"
        THEN UNCHANGED vars
        ELSE \E tx \in ProposalContexts, putFail \in PutFails :
                 Propose("TransferEvidence", input, tx,
                         TransferEvidence(state, input, tx, putFail),
                         TransferReads(input))

ProposeRemoveEvidence ==
    \E input \in {i \in RemoveInputs : i.evidenceId \in ContendedIds} :
        IF RemoveChecks(state, input) # "OK"
        THEN UNCHANGED vars
        ELSE \E tx \in ProposalContexts, putFail \in PutFails :
                 Propose("RemoveEvidence", input, tx,
                         RemoveEvidence(state, input, tx, putFail),
                         RemoveReads(input))

\* the store validates a pending transaction: it commits it, or aborts it
Validate ==
    \E proposal \in inflight :
        /\ inflight' = inflight \ {proposal}
        /\ IF Valid(ledger, proposal)
           THEN /\ state' = Commit(state, [err |-> "OK",
                                           writes |-> proposal.writes,
                                           ret |-> <<>>])
                /\ ledger' = Append(ledger,
                                    [txId |-> proposal.txId,
                                     seconds |-> proposal.seconds,
                                     nanos |-> proposal.nanos,
                                     fn |-> proposal.fn,
                                     evidenceId |-> proposal.evidenceId,
                                     writes |-> proposal.writes])
           ELSE UNCHANGED <<state, ledger>>
        /\ UNCHANGED <<uploads, reply>>

NextConcurrent ==
    \/ ProposeCreateEvidence
    \/ ProposeCheckInEvidence
    \/ ProposeTransferEvidence
    \/ ProposeRemoveEvidence
    \/ Validate
    \/ DoGetEvidence
    \/ DoGetEvidenceHistory
    \/ DoGetEvidenceEvents

SpecConcurrent == Init /\ [][NextConcurrent]_vars

(***************************************************************************)
(* Intake.  Clients that register evidence and read it back, with every    *)
(* way of naming the creating actor and the first custodian.               *)
(***************************************************************************)
PerformedByIn == {Absent, "", "alice"}
CreatedByIn == {Absent, "bob"}
CurrentCustodianIn == {Absent, "", "Locker"}

IntakeInputs ==
    [evidenceId : EvidenceIdIn, caseIdHash : CaseIdHashIn,
     description : {"phone"}, imageHash : {"h1"}, imageFilename : {"f1"},
     currentCustodian : CurrentCustodianIn, createdBy : CreatedByIn,
     performedBy : PerformedByIn, role : RoleIn, cert : {Absent},
     notes : {Absent}]

\* the contexts the next intake transaction may run in
IntakeContexts(led) ==
    [id : {TxIdNames[Len(led) + 1]}, seconds : TxSecondsIn, nanos : TxNanosIn]

DoIntake ==
    \E input \in IntakeInputs :
        IF CreateChecks(state, input) # "OK"
        THEN UNCHANGED vars
        ELSE \E tx \in IntakeContexts(ledger), putFail \in PutFails :
                 Submit("CreateEvidence", input, tx,
                        CreateEvidence(state, input, tx, putFail))

NextIntake ==
    \/ DoIntake
    \/ DoGetEvidence
    \/ DoGetEvidenceHistory
    \/ DoGetEvidenceEvents

SpecIntake == Init /\ [][NextIntake]_vars

(***************************************************************************)
(* The API server in front of the contract.  GET /api/evidence/:id reads   *)
(* the record from the ledger, hashes the artifact it finds under the      *)
(* recorded file name in its upload directory, and compares the hashes.    *)
(* The booleans of its JSON response are "true" and "false", null is Null. *)
(***************************************************************************)
Null == "null"

\* what a file may hold
ContentIn == {"img", "img2"}

\* hashFileSha256: the hex digest of the content of a file, never empty
hashFileSha256(content) ==
    CASE content = "img" -> "h1"
      [] content = "img2" -> "h2"

\* fs.existsSync of a file of the upload directory
existsSync(dir, filename) == filename \in DOMAIN dir

\* getEvidenceFromChain: the parsed record, or nothing when the query throws
getEvidenceFromChain(st, evidenceId) ==
    LET result == GetEvidence(st, evidenceId)
    IN  IF result.err # "OK" \/ result.ret = <<>> THEN <<>>
        ELSE <<JSONparse(result.ret[1], RecordFields)>>

\* an integrity check with two values: every inequality of the two hashes is
\* a tampering
GetEvidenceApiTwoValued(st, dir, evidenceId) ==
    LET got == getEvidenceFromChain(st, evidenceId)
    IN  IF got = <<>>
        THEN [status |-> 500, error |-> "Failed to fetch evidence"]
        ELSE
        LET evidence == got[1]
            hashOnChain == evidence.imageHash
            imageFilename == evidence.imageFilename
            imageExists == ~Falsy(imageFilename) /\ existsSync(dir, imageFilename)
            hashLocal == IF imageExists THEN hashFileSha256(dir[imageFilename])
                         ELSE Null
        IN  [status |-> 200, evidence |-> evidence, hashOnChain |-> hashOnChain,
             hashLocal |-> hashLocal, imageExists |-> imageExists,
             tampered |-> IF hashOnChain # hashLocal THEN "true" ELSE "false",
             imageUrl |-> IF imageExists THEN imageFilename ELSE Null]

\* app.get("/api/evidence/:id"): the JSON response
GetEvidenceApi(st, dir, evidenceId) ==
    LET got == getEvidenceFromChain(st, evidenceId)
    IN  IF got = <<>>
        THEN [status |-> 500, error |-> "Failed to fetch evidence"]
        ELSE
        LET evidence == got[1]
            hashOnChain == evidence.imageHash
            imageFilename == evidence.imageFilename
            imageExists == ~Falsy(imageFilename) /\ existsSync(dir, imageFilename)
            hashLocal == IF imageExists THEN hashFileSha256(dir[imageFilename])
                         ELSE Null
            tampered == IF ~imageExists THEN Null
                        ELSE IF ~Falsy(hashOnChain) /\ ~Falsy(hashLocal)
                        THEN (IF hashOnChain # hashLocal THEN "true" ELSE "false")
                        ELSE Null
        IN  [status |-> 200, evidence |-> evidence, hashOnChain |-> hashOnChain,
             hashLocal |-> hashLocal, imageExists |-> imageExists,
             tampered |-> tampered,
             imageUrl |-> IF imageExists THEN imageFilename ELSE Null]

\* renderEvidenceResult: the integrity line the page shows for a response
renderEvidenceResult(data) ==
    IF data.tampered = "true" THEN "TAMPER DETECTED (Hash mismatch)"
    ELSE IF data.tampered = "false" THEN "VERIFIED (Hashes match)"
    ELSE IF ~data.imageExists THEN "No local image found to verify against."
    ELSE "Unknown."

\* the hashes and file names a record may carry
ImageHashIn == {Absent, "", "h1", "h2"}
ImageFilenameIn == {Absent, "", "f1", "f2"}

IntegrityInputs ==
    [evidenceId : EvidenceIds, caseIdHash : {"c4se"},
     description : {"phone"}, imageHash : ImageHashIn,
     imageFilename : ImageFilenameIn,
     currentCustodian : {Absent}, createdBy : {"bob"},
     performedBy : {"alice"}, role : {"EvidenceManager"}, cert : {Absent},
     notes : {Absent}]

\* the contexts the next transaction of the API server may run in
IntegrityContexts(led) ==
    [id : {TxIdNames[Len(led) + 1]}, seconds : {0}, nanos : TxNanosIn]

\* the upload directories the server may find: each file there or not, with
\* either content
UploadDirs ==
    UNION {[names -> ContentIn] : names \in SUBSET (ImageFilenameIn \ {Absent, ""})}

DoRegister ==
    \E input \in IntegrityInputs :
        IF CreateChecks(state, input) # "OK"
        THEN UNCHANGED vars
        ELSE \E tx \in IntegrityContexts(ledger), putFail \in PutFails :
                 Submit("CreateEvidence", input, tx,
                        CreateEvidence(state, input, tx, putFail))

DoGetEvidenceApi ==
    \E evidenceId \in EvidenceIds :
        /\ reply' = GetEvidenceApi(state, uploads, evidenceId)
        /\ UNCHANGED <<state, ledger, inflight, uploads>>

InitIntegrity ==
    /\ state = <<>>
    /\ ledger = <<>>
    /\ inflight = {}
    /\ uploads \in UploadDirs
    /\ reply = NoReply

NextIntegrity ==
    \/ DoRegister
    \/ DoGetEvidenceApi

SpecIntegrity == InitIntegrity /\ [][NextIntegrity]_vars

(***************************************************************************)
(* The API server: the requests that write.  POST /api/evidence stores the *)
(* uploaded file, hashes it and submits CreateEvidence; POST               *)
(* /api/evidence/:id/action submits the method its actionType names.  A    *)
(* handler yields its response, the transactions it has submitted and the  *)
(* outcome of the method.                                                  *)
(***************************************************************************)
\* crypto.createHash("sha256").update(caseId).digest("hex")
sha256Hex(text) ==
    CASE text = "case7" -> "c4se"

\* no transaction was submitted
NotSubmitted == [err |-> "NOT_SUBMITTED", writes |-> <<>>, ret |-> <<>>]

\* res.status(400).json({ error })
Rejected(error) ==
    [response |-> [status |-> 400, error |-> error],
     submitted |-> <<>>, outcome |-> NotSubmitted]

\* the members of the input object of CreateEvidence
CreateInputFields ==
    {"evidenceId", "caseIdHash", "description", "imageHash", "imageFilename",
     "currentCustodian", "createdBy", "performedBy", "role", "cert", "notes"}

CheckInInputFields ==
    {"evidenceId", "custodian", "performedBy", "role", "cert", "notes"}

TransferInputFields ==
    {"evidenceId", "fromCustodian", "toCustodian", "performedBy", "role",
     "cert", "notes"}

RemoveInputFields == {"evidenceId", "performedBy", "role", "cert", "notes"}

\* a create handler that takes a request without a role for a technician's
PostEvidenceAsTechnician(st, req, filename, tx, putFail) ==
    IF Falsy(req.evidenceId) \/ Falsy(req.caseId)
    THEN Rejected("evidenceId and caseId are required")
    ELSE IF req.file = Absent
    THEN Rejected("Image file is required")
    ELSE
    LET evidenceData == [evidenceId |-> req.evidenceId,
                         caseIdHash |-> sha256Hex(req.caseId),
                         description |-> OrElse(req.description, ""),
                         imageHash |-> hashFileSha256(req.file),
                         imageFilename |-> filename,
                         createdBy |-> OrElse(req.userId, "demoUser"),
                         role |-> OrElse(req.role, "ForensicTechnician")]
        input == JSONparse(JSONstringify(evidenceData), CreateInputFields)
        out == CreateEvidence(st, input, tx, putFail)
    IN  [response |-> IF out.err = "OK"
                      THEN [status |-> 201, error |-> Absent]
                      ELSE [status |-> 500, error |-> "Failed to create evidence"],
         submitted |-> << [fn |-> "CreateEvidence", input |-> input] >>,
         outcome |-> out]

\* app.post("/api/evidence"): req.body, req.file (the content of the upload)
\* and the name multer gave the stored file
PostEvidence(st, req, filename, tx, putFail) ==
    IF Falsy(req.evidenceId) \/ Falsy(req.caseId)
    THEN Rejected("evidenceId and caseId are required")
    ELSE IF req.file = Absent
    THEN Rejected("Image file is required")
    ELSE
    LET evidenceData == [evidenceId |-> req.evidenceId,
                         caseIdHash |-> sha256Hex(req.caseId),
                         description |-> OrElse(req.description, ""),
                         imageHash |-> hashFileSha256(req.file),
                         imageFilename |-> filename,
                         createdBy |-> OrElse(req.userId, "demoUser"),
                         role |-> OrElse(req.role, "Unknown")]
        input == JSONparse(JSONstringify(evidenceData), CreateInputFields)
        out == CreateEvidence(st, input, tx, putFail)
    IN  [response |-> IF out.err = "OK"
                      THEN [status |-> 201, error |-> Absent]
                      ELSE [status |-> 500, error |-> "Failed to create evidence"],
         submitted |-> << [fn |-> "CreateEvidence", input |-> input] >>,
         outcome |-> out]

\* submitEvidenceActionOnChain: the method of that name runs on the payload
submitEvidenceActionOnChain(st, actionName, payloadObj, tx, putFail) ==
    CASE actionName = "CheckInEvidence" ->
            CheckInEvidence(st, JSONparse(JSONstringify(payloadObj),
                                          CheckInInputFields), tx, putFail)
      [] actionName = "TransferEvidence" ->
            TransferEvidence(st, JSONparse(JSONstringify(payloadObj),
                                           TransferInputFields), tx, putFail)
      [] actionName = "RemoveEvidence" ->
            RemoveEvidence(st, JSONparse(JSONstringify(payloadObj),
                                         RemoveInputFields), tx, putFail)

\* the end of the action handler: the one submission and the response to it
Applied(st, txName, payload, tx, putFail) ==
    LET out == submitEvidenceActionOnChain(st, txName, payload, tx, putFail)
    IN  [response |-> IF out.err = "OK"
                      THEN [status |-> 200, error |-> Absent]
                      ELSE [status |-> 500,
                            error |-> "Failed to apply evidence action"],
         submitted |-> << [fn |-> txName, input |-> payload] >>,
         outcome |-> out]

\* an action handler that leaves the test of a transfer to the contract
PostActionUnchecked(st, evidenceId, body, tx, putFail) ==
    IF Falsy(body.actionType)
    THEN Rejected("actionType is required")
    ELSE
    LET performedBy == OrElse(body.userId, "demoUser")
    IN  CASE body.actionType = "CHECKIN" ->
                Applied(st, "CheckInEvidence",
                        [evidenceId |-> evidenceId, custodian |-> body.custodian,
                         performedBy |-> performedBy, role |-> body.role,
                         notes |-> body.notes], tx, putFail)
          [] body.actionType = "TRANSFER" ->
                Applied(st, "TransferEvidence",
                        [evidenceId |-> evidenceId,
                         fromCustodian |-> body.fromCustodian,
                         toCustodian |-> body.toCustodian,
                         performedBy |-> performedBy, role |-> body.role,
                         notes |-> body.notes], tx, putFail)
          [] body.actionType = "REMOVE" ->
                Applied(st, "RemoveEvidence",
                        [evidenceId |-> evidenceId, performedBy |-> performedBy,
                         role |-> body.role, notes |-> body.notes], tx, putFail)
          [] OTHER -> Rejected("Unknown actionType")

\* app.post("/api/evidence/:id/action"): req.params.id and req.body
PostAction(st, evidenceId, body, tx, putFail) ==
    IF Falsy(body.actionType)
    THEN Rejected("actionType is required")
    ELSE
    LET performedBy == OrElse(body.userId, "demoUser")
    IN  CASE body.actionType = "CHECKIN" ->
                Applied(st, "CheckInEvidence",
                        [evidenceId |-> evidenceId, custodian |-> body.custodian,
                         performedBy |-> performedBy, role |-> body.role,
                         notes |-> body.notes], tx, putFail)
          [] body.actionType = "TRANSFER" ->
                IF Falsy(body.toCustodian)
                THEN Rejected("toCustodian is required for TRANSFER")
                ELSE Applied(st, "TransferEvidence",
                             [evidenceId |-> evidenceId,
                              fromCustodian |-> body.fromCustodian,
                              toCustodian |-> body.toCustodian,
                              performedBy |-> performedBy, role |-> body.role,
                              notes |-> body.notes], tx, putFail)
          [] body.actionType = "REMOVE" ->
                Applied(st, "RemoveEvidence",
                        [evidenceId |-> evidenceId, performedBy |-> performedBy,
                         role |-> body.role, notes |-> body.notes], tx, putFail)
          [] OTHER -> Rejected("Unknown actionType")

\* what the requests may carry
CaseIdIn == {Absent, "case7"}
UserIdIn == {Absent}
FileIn == {Absent, "img"}
UploadNames == {"f1"}
ActionTypeIn == {Absent, "CHECKIN", "TRANSFER", "REMOVE", "CHECKOUT"}
ApiRoleIn == {Absent, "ForensicTechnician", "EvidenceManager"}

PostEvidenceRequests ==
    [evidenceId : EvidenceIdIn, caseId : CaseIdIn, description : {Absent},
     role : ApiRoleIn, userId : UserIdIn, file : FileIn]

ActionRequests ==
    [actionType : ActionTypeIn, role : ApiRoleIn, userId : UserIdIn,
     custodian : CustodianIn, fromCustodian : {Absent},
     toCustodian : ToCustodianIn, notes : {Absent}]

\* the contexts a transaction of the API server may run in
ApiContexts(led) ==
    IF Len(led) >= MaxTx THEN {}
    ELSE [id : {TxIdNames[Len(led) + 1]}, seconds : {0}, nanos : TxNanosIn]

\* the upload directory once multer has stored the file of a request
storeUpload(dir, filename, file) ==
    IF file = Absent THEN dir
    ELSE [n \in DOMAIN dir \cup {filename} |->
             IF n = filename THEN file ELSE dir[n]]

\* the context of a handler that submits nothing
NoTx == [id |-> "", seconds |-> 0, nanos |-> 0]

\* the requests the handlers answer with 400
EvidenceRefused(req) ==
    Falsy(req.evidenceId) \/ Falsy(req.caseId) \/ req.file = Absent

ActionRefused(body) ==
    \/ Falsy(body.actionType)
    \/ body.actionType \notin {"CHECKIN", "TRANSFER", "REMOVE"}
    \/ body.actionType = "TRANSFER" /\ Falsy(body.toCustodian)

DoPostEvidence ==
    \E req \in PostEvidenceRequests, filename \in UploadNames :
        /\ uploads' = storeUpload(uploads, filename, req.file)
        /\ IF EvidenceRefused(req)
           THEN /\ reply' = PostEvidence(state, req, filename, NoTx, 0).response
                /\ UNCHANGED <<state, ledger, inflight>>
           ELSE \E tx \in ApiContexts(ledger), putFail \in PutFails :
                    LET done == PostEvidence(state, req, filename, tx, putFail)
                    IN  /\ reply' = done.response
                        /\ submitTransaction(done.submitted[1].fn,
                                             done.submitted[1].input, tx,
                                             done.outcome)

DoPostAction ==
    \E evidenceId \in EvidenceIds, body \in ActionRequests :
        /\ uploads' = uploads
        /\ IF ActionRefused(body)
           THEN /\ reply' = PostAction(state, evidenceId, body, NoTx, 0).response
                /\ UNCHANGED <<state, ledger, inflight>>
           ELSE \E tx \in ApiContexts(ledger), putFail \in PutFails :
                    LET done == PostAction(state, evidenceId, body, tx, putFail)
                    IN  /\ reply' = done.response
                        /\ submitTransaction(done.submitted[1].fn,
                                             done.submitted[1].input, tx,
                                             done.outcome)

NextApi ==
    \/ DoPostEvidence
    \/ DoPostAction

SpecApi == Init /\ [][NextApi]_vars

(***************************************************************************)
(* Properties.  A property of an operation is stated on the operation      *)
(* applied in a reachable state: for every input and every transaction     *)
(* context the next transaction may get, the outcome of the method and     *)
(* the world state its transaction leaves behind.                          *)
(***************************************************************************)
\* the contexts of a transaction submitted now
NextTxs ==
    [id : {TxIdNames[Len(ledger) + 1]}, seconds : TxSecondsIn, nanos : TxNanosIn]

Stored(st, evidenceId) == evidenceKey(evidenceId) \in DOMAIN st

\* the record GetEvidence returns for an id that has one
RecordOf(st, evidenceId) == GetEvidence(st, evidenceId).ret[1]

EventsOf(st, evidenceId) == GetEvidenceEvents(st, evidenceId).ret

\* the committed transactions on one evidence id
TxsOn(led, evidenceId) == {i \in 1..Len(led) : led[i].evidenceId = evidenceId}

LastTx == ledger[Len(ledger)]

Allowed(role, roles) == ~Falsy(role) /\ role \in roles

\* C1: for every valid CreateEvidence (evidenceId and caseIdHash present, role
\* ForensicTechnician or EvidenceManager, id not yet present), GetEvidence on
\* that id right after it returns a record with status CREATED and
\* createdAt = updatedAt
C1_CreateThenGet ==
    \A input \in CreateInputs, tx \in NextTxs :
        ( /\ ~Falsy(input.evidenceId) /\ ~Falsy(input.caseIdHash)
          /\ input.role \in {"ForensicTechnician", "EvidenceManager"}
          /\ ~Stored(state, input.evidenceId) )
        => LET after == Commit(state, CreateEvidence(state, input, tx, 0))
               got == GetEvidence(after, input.evidenceId)
           IN  /\ got.err = "OK"
               /\ got.ret[1].evidenceId = input.evidenceId
               /\ got.ret[1].status = "CREATED"
               /\ got.ret[1].createdAt = got.ret[1].updatedAt

\* a create was the last transaction committed, and GetEvidence returns its record
C1_Witness ==
    /\ ledger # <<>>
    /\ LastTx.fn = "CreateEvidence"
    /\ GetEvidence(state, LastTx.evidenceId).err = "OK"
    /\ RecordOf(state, LastTx.evidenceId).status = "CREATED"
    /\ RecordOf(state, LastTx.evidenceId).createdAt = now(LastTx)

\* C2 as stated: a CreateEvidence for an id that already has a record fails
\* with ALREADY_EXISTS whatever its fields and role, and changes nothing
C2_AsStated ==
    \A input \in CreateInputs, tx \in NextTxs, putFail \in PutFails :
        (~Falsy(input.evidenceId) /\ Stored(state, input.evidenceId))
        => LET out == CreateEvidence(state, input, tx, putFail)
           IN  out.err = "ALREADY_EXISTS" /\ Commit(state, out) = state

\* C2 amended: a CreateEvidence for an id that already has a record fails and
\* changes nothing; the error is ALREADY_EXISTS when the request carries
\* caseIdHash and an allowed role, VALIDATION_ERROR without caseIdHash, and
\* ACCESS_DENIED otherwise
C2_DuplicateCreate ==
    \A input \in CreateInputs, tx \in NextTxs, putFail \in PutFails :
        (~Falsy(input.evidenceId) /\ Stored(state, input.evidenceId))
        => LET out == CreateEvidence(state, input, tx, putFail)
           IN  /\ out.err = (IF Falsy(input.caseIdHash) THEN "VALIDATION_ERROR"
                             ELSE IF ~Allowed(input.role, CreateRoles)
                                  THEN "ACCESS_DENIED"
                             ELSE "ALREADY_EXISTS")
               /\ Commit(state, out) = state

\* a record exists that later transactions have changed, and creating its id
\* again is answered ALREADY_EXISTS
C2_Witness ==
    \E evidenceId \in EvidenceIds :
        /\ Stored(state, evidenceId)
        /\ RecordOf(state, evidenceId).status # "CREATED"
        /\ \E input \in CreateInputs, tx \in NextTxs :
              /\ input.evidenceId = evidenceId
              /\ CreateEvidence(state, input, tx, 0).err = "ALREADY_EXISTS"

\* the error the checks of CheckIn, Transfer and Remove give a request on an
\* id without a record, by the order of the checks
MissingRecordError(missingField, role, roles) ==
    IF missingField THEN "VALIDATION_ERROR"
    ELSE IF ~Allowed(role, roles) THEN "ACCESS_DENIED"
    ELSE "NOT_FOUND"

\* C3 as stated: CheckInEvidence, TransferEvidence and RemoveEvidence on an
\* evidence id for which no record exists fail with NOT_FOUND
C3_AsStated ==
    \A evidenceId \in EvidenceIds, tx \in NextTxs, putFail \in PutFails :
        ~Stored(state, evidenceId)
        => /\ \A input \in CheckInInputs : input.evidenceId = evidenceId
                => CheckInEvidence(state, input, tx, putFail).err = "NOT_FOUND"
           /\ \A input \in TransferInputs : input.evidenceId = evidenceId
                => TransferEvidence(state, input, tx, putFail).err = "NOT_FOUND"
           /\ \A input \in RemoveInputs : input.evidenceId = evidenceId
                => RemoveEvidence(state, input, tx, putFail).err = "NOT_FOUND"

\* C3 amended: on an evidence id for which no record exists the three
\* operations fail and write nothing; the error is NOT_FOUND when the request
\* passes the earlier checks (toCustodian present for a transfer, a role the
\* operation allows), VALIDATION_ERROR or ACCESS_DENIED when it does not
C3_MissingRecord ==
    \A evidenceId \in EvidenceIds, tx \in NextTxs, putFail \in PutFails :
        ~Stored(state, evidenceId)
        => /\ \A input \in CheckInInputs : input.evidenceId = evidenceId
                => LET out == CheckInEvidence(state, input, tx, putFail)
                   IN  /\ out.err = MissingRecordError(FALSE, input.role, CheckInRoles)
                       /\ Commit(state, out) = state
           /\ \A input \in TransferInputs : input.evidenceId = evidenceId
                => LET out == TransferEvidence(state, input, tx, putFail)
                   IN  /\ out.err = MissingRecordError(Falsy(input.toCustodian),
                                                       input.role, TransferRoles)
                       /\ Commit(state, out) = state
           /\ \A input \in RemoveInputs : input.evidenceId = evidenceId
                => LET out == RemoveEvidence(state, input, tx, putFail)
                   IN  /\ out.err = MissingRecordError(FALSE, input.role, RemoveRoles)
                       /\ Commit(state, out) = state

\* one id has a record and the other has none, and an EvidenceManager's
\* check-in, transfer and removal of the other are answered NOT_FOUND
C3_Witness ==
    \E evidenceId \in EvidenceIds, tx \in NextTxs :
        /\ ~Stored(state, evidenceId)
        /\ ledger # <<>>
        /\ \E input \in CheckInInputs :
              /\ input.evidenceId = evidenceId
              /\ CheckInEvidence(state, input, tx, 0).err = "NOT_FOUND"
        /\ \E input \in TransferInputs :
              /\ input.evidenceId = evidenceId
              /\ TransferEvidence(state, input, tx, 0).err = "NOT_FOUND"
        /\ \E input \in RemoveInputs :
              /\ input.evidenceId = evidenceId
              /\ RemoveEvidence(state, input, tx, 0).err = "NOT_FOUND"

Removed(st, evidenceId) ==
    Stored(st, evidenceId) /\ RecordOf(st, evidenceId).status = "REMOVED"

\* C4 as stated: CheckInEvidence and TransferEvidence on a record whose status
\* is REMOVED fail with INVALID_STATE
C4_AsStated ==
    \A evidenceId \in EvidenceIds, tx \in NextTxs, putFail \in PutFails :
        Removed(state, evidenceId)
        => /\ \A input \in CheckInInputs : input.evidenceId = evidenceId
                => CheckInEvidence(state, input, tx, putFail).err = "INVALID_STATE"
           /\ \A input \in TransferInputs : input.evidenceId = evidenceId
                => TransferEvidence(state, input, tx, putFail).err = "INVALID_STATE"

\* C4 amended: CheckInEvidence and TransferEvidence on a REMOVED record fail
\* and write nothing; the error is INVALID_STATE when the request passes the
\* earlier checks (toCustodian present for a transfer, a role the operation
\* allows), VALIDATION_ERROR or ACCESS_DENIED when it does not
C4_RemovedRecord ==
    \A evidenceId \in EvidenceIds, tx \in NextTxs, putFail \in PutFails :
        Removed(state, evidenceId)
        => /\ \A input \in CheckInInputs : input.evidenceId = evidenceId
                => LET out == CheckInEvidence(state, input, tx, putFail)
                   IN  /\ out.err = (IF ~Allowed(input.role, CheckInRoles)
                                     THEN "ACCESS_DENIED" ELSE "INVALID_STATE")
                       /\ Commit(state, out) = state
           /\ \A input \in TransferInputs : input.evidenceId = evidenceId
                => LET out == TransferEvidence(state, input, tx, putFail)
                   IN  /\ out.err = (IF Falsy(input.toCustodian)
                                     THEN "VALIDATION_ERROR"
                                     ELSE IF ~Allowed(input.role, TransferRoles)
                                          THEN "ACCESS_DENIED"
                                     ELSE "INVALID_STATE")
                       /\ Commit(state, out) = state

\* a record was removed by the last transaction, and a technician's check-in
\* and a manager's transfer of it are answered INVALID_STATE
C4_Witness ==
    \E evidenceId \in EvidenceIds, tx \in NextTxs :
        /\ Removed(state, evidenceId)
        /\ LastTx.fn = "RemoveEvidence"
        /\ \E input \in CheckInInputs :
              /\ input.evidenceId = evidenceId
              /\ input.role = "ForensicTechnician"
              /\ CheckInEvidence(state, input, tx, 0).err = "INVALID_STATE"
        /\ \E input \in TransferInputs :
              /\ input.evidenceId = evidenceId
              /\ TransferEvidence(state, input, tx, 0).err = "INVALID_STATE"

\* C5 as stated: TransferEvidence with a role other than EvidenceManager (an
\* absent role and ForensicTechnician included) fails with ACCESS_DENIED and
\* leaves the stored record unmodified
C5_AsStated ==
    \A input \in TransferInputs, tx \in NextTxs, putFail \in PutFails :
        (input.role # "EvidenceManager" /\ ~Falsy(input.evidenceId)
            /\ Stored(state, input.evidenceId))
        => LET out == TransferEvidence(state, input, tx, putFail)
           IN  out.err = "ACCESS_DENIED" /\ Commit(state, out) = state

\* C5 amended: TransferEvidence with a role other than EvidenceManager fails
\* and leaves the world state unmodified, whether the id has a record or not;
\* the error is ACCESS_DENIED when the request carries evidenceId and
\* toCustodian, and VALIDATION_ERROR when it lacks one of them
C5_TransferDenied ==
    \A input \in TransferInputs, tx \in NextTxs, putFail \in PutFails :
        input.role # "EvidenceManager"
        => LET out == TransferEvidence(state, input, tx, putFail)
           IN  /\ out.err = (IF Falsy(input.evidenceId) \/ Falsy(input.toCustodian)
                             THEN "VALIDATION_ERROR" ELSE "ACCESS_DENIED")
               /\ Commit(state, out) = state

\* a record that is not removed exists, and its transfer by a technician and
\* by a caller without a role are answered ACCESS_DENIED
C5_Witness ==
    \E evidenceId \in EvidenceIds, tx \in NextTxs :
        /\ Stored(state, evidenceId)
        /\ ~Removed(state, evidenceId)
        /\ \A role \in {Absent, "ForensicTechnician"} :
              \E input \in TransferInputs :
                  /\ input.evidenceId = evidenceId
                  /\ input.role = role
                  /\ input.toCustodian = "Court"
                  /\ TransferEvidence(state, input, tx, 0).err = "ACCESS_DENIED"

\* the stored record and the stored events of an id, parsed
Rec(st, evidenceId) == get(st, evidenceKey(evidenceId), RecordFields)[1]

ParsedEvents(st, evidenceId) ==
    LET docs == EventsOf(st, evidenceId)
    IN  [i \in 1..Len(docs) |-> JSONparse(docs[i], EventFields)]

EventsUnder(st, evidenceId, txId) ==
    LET events == ParsedEvents(st, evidenceId)
    IN  {i \in 1..Len(events) : events[i].txId = txId}

\* the events a read returned before are all returned after
EventsKept(before, after, evidenceId) ==
    LET old == ParsedEvents(before, evidenceId)
        new == ParsedEvents(after, evidenceId)
    IN  /\ Len(new) = Len(old) + 1
        /\ \A i \in 1..Len(old) : \E j \in 1..Len(new) : new[j] = old[i]

\* C6: after N successful transitions on one evidence id (create, check-in,
\* transfer, remove) GetEvidenceEvents returns exactly N events, in
\* non-decreasing order of timestamp, with pairwise different transaction ids
C6_EventsPerTransition ==
    \A evidenceId \in EvidenceIds :
        LET events == ParsedEvents(state, evidenceId)
        IN  /\ GetEvidenceEvents(state, evidenceId).err = "OK"
            /\ Len(events) = Cardinality(TxsOn(ledger, evidenceId))
            /\ \A i, j \in 1..Len(events) :
                  i < j => /\ events[i].timestamp <= events[j].timestamp
                           /\ events[i].txId # events[j].txId

\* three transitions on one id were committed with timestamps that go back in
\* time, and the read returns their three events
C6_Witness ==
    \E evidenceId \in EvidenceIds :
        /\ Cardinality(TxsOn(ledger, evidenceId)) = 3
        /\ Len(EventsOf(state, evidenceId)) = 3
        /\ \E i, j \in TxsOn(ledger, evidenceId) :
              i < j /\ now(ledger[i]) > now(ledger[j])

\* C7: a successful TransferEvidence sets the record's status to TRANSFERRED
\* and its currentCustodian to toCustodian, and appends one TRANSFERRED event
\* that carries toCustodian and, as fromCustodian, the supplied fromCustodian
\* or else the currentCustodian the record had before
C7_TransferEffects ==
    \A input \in TransferInputs, tx \in NextTxs :
        TransferChecks(state, input) = "OK"
        => LET evidenceId == input.evidenceId
               prior == Rec(state, evidenceId)
               out == TransferEvidence(state, input, tx, 0)
               after == Commit(state, out)
               events == ParsedEvents(after, evidenceId)
           IN  /\ out.err = "OK"
               /\ Rec(after, evidenceId).status = "TRANSFERRED"
               /\ Rec(after, evidenceId).currentCustodian = input.toCustodian
               /\ EventsKept(state, after, evidenceId)
               /\ Cardinality(EventsUnder(after, evidenceId, tx.id)) = 1
               /\ \A i \in EventsUnder(after, evidenceId, tx.id) :
                     /\ events[i].eventType = "TRANSFERRED"
                     /\ events[i].toCustodian = input.toCustodian
                     /\ events[i].fromCustodian =
                           (IF Falsy(input.fromCustodian)
                            THEN prior.currentCustodian
                            ELSE input.fromCustodian)

\* the last transaction transferred a record without naming fromCustodian:
\* the record is TRANSFERRED, held by the new custodian, and the event of the
\* transaction names a fromCustodian that no request supplied
C7_Witness ==
    /\ ledger # <<>>
    /\ LastTx.fn = "TransferEvidence"
    /\ Rec(state, LastTx.evidenceId).status = "TRANSFERRED"
    /\ Rec(state, LastTx.evidenceId).currentCustodian = "Court"
    /\ \E i \in EventsUnder(state, LastTx.evidenceId, LastTx.txId) :
          LET event == ParsedEvents(state, LastTx.evidenceId)[i]
          IN  /\ event.eventType = "TRANSFERRED"
              /\ event.toCustodian = "Court"
              /\ event.fromCustodian \notin FromCustodianIn

\* C8 as stated: REMOVED is terminal: once a record's status is REMOVED the
\* stored record never changes again, while reads of it remain allowed
C8_RemovedIsTerminal ==
    [][\A evidenceId \in EvidenceIds :
          Removed(state, evidenceId)
          => /\ state'[evidenceKey(evidenceId)] = state[evidenceKey(evidenceId)]
             /\ GetEvidence(state', evidenceId).err = "OK"]_vars

\* C9: RemoveEvidence by an EvidenceManager on a record that is already
\* REMOVED succeeds: the status stays REMOVED, updatedAt becomes the
\* millisecond timestamp of the new transaction, and one more REMOVED event
\* is appended under the new transaction id
C9_RemoveAgain ==
    \A input \in RemoveInputs, tx \in NextTxs :
        (input.role = "EvidenceManager" /\ ~Falsy(input.evidenceId)
            /\ Removed(state, input.evidenceId))
        => LET evidenceId == input.evidenceId
               out == RemoveEvidence(state, input, tx, 0)
               after == Commit(state, out)
               events == ParsedEvents(after, evidenceId)
           IN  /\ out.err = "OK"
               /\ Rec(after, evidenceId).status = "REMOVED"
               /\ Rec(after, evidenceId).updatedAt = now(tx)
               /\ EventsKept(state, after, evidenceId)
               /\ EventsUnder(state, evidenceId, tx.id) = {}
               /\ Cardinality(EventsUnder(after, evidenceId, tx.id)) = 1
               /\ \A i \in EventsUnder(after, evidenceId, tx.id) :
                     events[i].eventType = "REMOVED"

\* the last two transactions removed the same record at different times: the
\* record carries the time of the second and the id has two REMOVED events
C9_Witness ==
    /\ Len(ledger) >= 2
    /\ LastTx.fn = "RemoveEvidence"
    /\ ledger[Len(ledger) - 1].fn = "RemoveEvidence"
    /\ ledger[Len(ledger) - 1].evidenceId = LastTx.evidenceId
    /\ now(ledger[Len(ledger) - 1]) # now(LastTx)
    /\ Rec(state, LastTx.evidenceId).status = "REMOVED"
    /\ Rec(state, LastTx.evidenceId).updatedAt = now(LastTx)
    /\ LET events == ParsedEvents(state, LastTx.evidenceId)
       IN  Cardinality({i \in 1..Len(events) : events[i].eventType = "REMOVED"}) = 2

\* what a transaction leaves when both of its puts are committed, and when
\* none is
BothPersisted(after, full) ==
    /\ Len(full.writes) = 2
    /\ \A i \in 1..2 : /\ full.writes[i][1] \in DOMAIN after
                       /\ after[full.writes[i][1]] = full.writes[i][2]

NeitherPersisted(before, after) == after = before

\* C10: each of the four mutating operations is atomic with respect to the
\* record write and the event append: whichever store write fails, if any,
\* either both are persisted or neither is
C10_Atomic ==
    \A tx \in NextTxs, putFail \in PutFails :
        /\ \A input \in CreateInputs :
              LET after == Commit(state, CreateEvidence(state, input, tx, putFail))
              IN  \/ NeitherPersisted(state, after)
                  \/ BothPersisted(after, CreateEvidence(state, input, tx, 0))
        /\ \A input \in CheckInInputs :
              LET after == Commit(state, CheckInEvidence(state, input, tx, putFail))
              IN  \/ NeitherPersisted(state, after)
                  \/ BothPersisted(after, CheckInEvidence(state, input, tx, 0))
        /\ \A input \in TransferInputs :
              LET after == Commit(state, TransferEvidence(state, input, tx, putFail))
              IN  \/ NeitherPersisted(state, after)
                  \/ BothPersisted(after, TransferEvidence(state, input, tx, 0))
        /\ \A input \in RemoveInputs :
              LET after == Commit(state, RemoveEvidence(state, input, tx, putFail))
              IN  \/ NeitherPersisted(state, after)
                  \/ BothPersisted(after, RemoveEvidence(state, input, tx, 0))

\* the last transaction persisted its record and its event, and a transfer of
\* the same record whose second put the store refuses has issued the record
\* write and leaves the world state as it is
C10_Witness ==
    /\ ledger # <<>>
    /\ BothPersisted(state, LastTx)
    /\ \E input \in TransferInputs, tx \in NextTxs :
          LET out == TransferEvidence(state, input, tx, 2)
          IN  /\ input.evidenceId = LastTx.evidenceId
              /\ out.err = "STORE_ERROR"
              /\ Len(out.writes) = 1
              /\ out.writes[1][1] = evidenceKey(input.evidenceId)
              /\ Commit(state, out) = state

\* the version history GetEvidenceHistory returns for the record key of an id
HistoryOf(led, evidenceId) == GetEvidenceHistory(led, evidenceId).ret

\* an event and a history entry written by the same transaction, the entry's
\* record carrying the event's type as status and its timestamp as updatedAt
Corresponds(event, entry) ==
    /\ entry.txId = event.txId
    /\ ~entry.isDelete
    /\ entry.value.status = event.eventType
    /\ entry.value.updatedAt = event.timestamp

\* C11: in every reachable state, for each evidence id the audit events and
\* the version history of the record key correspond one-to-one by transaction
\* id: every event has a history entry written by the same transaction whose
\* value has status = the event's eventType and updatedAt = the event's
\* timestamp, and every history entry has such an event
C11_EventsMatchHistory ==
    \A evidenceId \in EvidenceIds :
        LET events == ParsedEvents(state, evidenceId)
            history == HistoryOf(ledger, evidenceId)
        IN  /\ Len(events) = Len(history)
            /\ \A i \in 1..Len(events) :
                  \E j \in 1..Len(history) : Corresponds(events[i], history[j])
            /\ \A j \in 1..Len(history) :
                  \E i \in 1..Len(events) : Corresponds(events[i], history[j])

\* an id has three record versions, a checked-in one among them, and three
\* events, while the other id has a history of its own
C11_Witness ==
    \E evidenceId \in EvidenceIds :
        LET history == HistoryOf(ledger, evidenceId)
        IN  /\ Len(history) = 3
            /\ Len(EventsOf(state, evidenceId)) = 3
            /\ \E j \in 1..3 : history[j].value.status = "CHECKED_IN"
            /\ history[3].value.status = "REMOVED"

\* the committed transactions of one method on one evidence id
TxsOf(led, fn, evidenceId) ==
    {i \in TxsOn(led, evidenceId) : led[i].fn = fn}

\* the events of one type among the events of an id
EventsTyped(st, evidenceId, eventType) ==
    LET events == ParsedEvents(st, evidenceId)
    IN  {i \in 1..Len(events) : events[i].eventType = eventType}

\* C12: when two CreateEvidence transactions for the same evidence id are
\* simulated against the same committed state, both seeing the id as absent,
\* the store's validation aborts one of them: at most one create is ever
\* committed for the id, the record exists exactly when one was, it is the
\* record that create wrote, and the id has exactly one CREATED event, the
\* one of that create
C12_OneCreateWins ==
    \A evidenceId \in EvidenceIds :
        LET creates == TxsOf(ledger, "CreateEvidence", evidenceId)
            key == evidenceKey(evidenceId)
        IN  /\ Cardinality(creates) <= 1
            /\ Stored(state, evidenceId) <=> creates # {}
            /\ Cardinality(EventsTyped(state, evidenceId, "CREATED"))
                  = Cardinality(creates)
            /\ \A i \in creates :
                  /\ EventsUnder(state, evidenceId, ledger[i].txId)
                        = EventsTyped(state, evidenceId, "CREATED")
                  /\ HistoryOf(ledger, evidenceId)[1].txId = ledger[i].txId
                  /\ Rec(state, evidenceId).createdAt = now(ledger[i])
                  /\ TxsOn(ledger, evidenceId) = {i}
                        => state[key] = WritesTo(ledger[i].writes, key)[1]

\* a create of an id is committed while another create of the same id, which
\* was simulated when the id was still absent and would write another record,
\* awaits validation
C12_Witness ==
    \E proposal \in inflight :
        /\ proposal.fn = "CreateEvidence"
        /\ proposal.reads = {<<evidenceKey(proposal.evidenceId), 0>>}
        /\ ~Valid(ledger, proposal)
        /\ TxsOn(ledger, proposal.evidenceId) # {}
        /\ \A i \in TxsOn(ledger, proposal.evidenceId) :
              /\ ledger[i].fn = "CreateEvidence"
              /\ ledger[i].writes[1] # proposal.writes[1]
              /\ state[evidenceKey(proposal.evidenceId)] = ledger[i].writes[1][2]

\* C13: under concurrent transactions on one evidence id, a CheckInEvidence
\* or TransferEvidence that read the record before a RemoveEvidence committed
\* never commits after it: in commit order no check-in or transfer, no
\* CHECKED_IN or TRANSFERRED record version and no such event follows a
\* REMOVED one of the same id
C13_NothingAfterRemove ==
    \A evidenceId \in EvidenceIds :
        LET history == HistoryOf(ledger, evidenceId)
            events == ParsedEvents(state, evidenceId)
            Position(txId) == CHOOSE i \in 1..Len(ledger) : ledger[i].txId = txId
        IN  /\ \A i, j \in TxsOn(ledger, evidenceId) :
                  (i < j /\ ledger[i].fn = "RemoveEvidence")
                  => ledger[j].fn \notin {"CheckInEvidence", "TransferEvidence"}
            /\ \A i, j \in 1..Len(history) :
                  (i < j /\ history[i].value.status = "REMOVED")
                  => history[j].value.status = "REMOVED"
            /\ \A i, j \in 1..Len(events) :
                  (events[i].eventType = "REMOVED"
                      /\ Position(events[i].txId) < Position(events[j].txId))
                  => events[j].eventType = "REMOVED"

\* a removal of an id is committed while a check-in or a transfer of the same
\* id, simulated on the record as it was before the removal, awaits validation
C13_Witness ==
    \E evidenceId \in EvidenceIds :
        /\ Removed(state, evidenceId)
        /\ ledger[Len(ledger)].fn = "RemoveEvidence"
        /\ \E proposal \in inflight :
              /\ proposal.fn \in {"CheckInEvidence", "TransferEvidence"}
              /\ proposal.evidenceId = evidenceId
              /\ ~Valid(ledger, proposal)

\* the position on the ledger of the transaction with this id
PositionOf(led, txId) == CHOOSE i \in 1..Len(led) : led[i].txId = txId

\* C14 as stated: the events of an evidence id, in the order GetEvidenceEvents
\* returns them, are in the order their transitions were committed, so the
\* first event is CREATED and the eventType of the last event is the status
\* of the current record, whatever timestamps and ids the transactions carry
C14_EventsInCommitOrder ==
    \A evidenceId \in EvidenceIds :
        LET events == ParsedEvents(state, evidenceId)
        IN  Stored(state, evidenceId)
            => /\ \A i, j \in 1..Len(events) :
                     i < j => PositionOf(ledger, events[i].txId)
                                 < PositionOf(ledger, events[j].txId)
               /\ events[1].eventType = "CREATED"
               /\ events[Len(events)].eventType = Rec(state, evidenceId).status

\* C15 as stated: in every reachable state every stored record has
\* updatedAt >= createdAt, updatedAt being the timestamp of the transaction
\* that wrote the record last
C15_UpdatedNotBeforeCreated ==
    \A evidenceId \in EvidenceIds :
        Stored(state, evidenceId)
        => LET rec == Rec(state, evidenceId)
               last == ledger[Version(ledger, evidenceKey(evidenceId))]
           IN  /\ rec.updatedAt = now(last)
               /\ rec.updatedAt >= rec.createdAt

\* the stored records: what a scan of the EVIDENCE keys finds, parsed
StoredRecords(st) ==
    LET iter == getStateByPartialCompositeKey(st, "EVIDENCE", <<>>)
    IN  [i \in 1..Len(iter) |-> JSONparse(iter[i].value, RecordFields)]

\* C16: evidenceId is immutable and unique: in every reachable state the
\* record stored under the key of id X has evidenceId = X, as has every
\* version the key ever held; at most one current record exists per id; and
\* once a transaction on X has been committed, the first being its create, a
\* record for X exists (no operation deletes it, RemoveEvidence included)
C16_IdImmutableUnique ==
    \A evidenceId \in EvidenceIds :
        LET records == StoredRecords(state)
            history == HistoryOf(ledger, evidenceId)
        IN  /\ TxsOn(ledger, evidenceId) # {} => Stored(state, evidenceId)
            /\ Stored(state, evidenceId)
                  => Rec(state, evidenceId).evidenceId = evidenceId
            /\ Cardinality({i \in 1..Len(records) :
                               records[i].evidenceId = evidenceId})
                  = (IF Stored(state, evidenceId) THEN 1 ELSE 0)
            /\ \A j \in 1..Len(history) :
                  /\ ~history[j].isDelete
                  /\ history[j].value.evidenceId = evidenceId

\* both ids have a record, one of them removed by the last transaction and
\* still stored under its id
C16_Witness ==
    /\ \A evidenceId \in EvidenceIds : Stored(state, evidenceId)
    /\ Len(StoredRecords(state)) = 2
    /\ LastTx.fn = "RemoveEvidence"
    /\ Rec(state, LastTx.evidenceId).evidenceId = LastTx.evidenceId
    /\ Rec(state, LastTx.evidenceId).status = "REMOVED"

\* C17: the authorization gate rejects an absent role and any role outside the
\* allowed set with ACCESS_DENIED, so that CreateEvidence and CheckInEvidence
\* succeed only with role ForensicTechnician or EvidenceManager and
\* RemoveEvidence only with role EvidenceManager: a request that carries its
\* required fields and a role that is not allowed is answered ACCESS_DENIED
\* whatever the world state holds
C17_RoleGate ==
    /\ \A role \in RoleIn, allowed \in {CreateRoles, CheckInRoles, RemoveRoles} :
          assertRole(role, allowed) =
              (IF role \in {Absent, ""} \/ role \notin allowed
               THEN "ACCESS_DENIED" ELSE "OK")
    /\ \A tx \in NextTxs :
          /\ \A input \in CreateInputs :
                LET out == CreateEvidence(state, input, tx, 0)
                IN  /\ out.err = "OK"
                        => input.role \in {"ForensicTechnician", "EvidenceManager"}
                    /\ (input.role \notin {"ForensicTechnician", "EvidenceManager"}
                          /\ ~Falsy(input.evidenceId) /\ ~Falsy(input.caseIdHash))
                        => out.err = "ACCESS_DENIED"
          /\ \A input \in CheckInInputs :
                LET out == CheckInEvidence(state, input, tx, 0)
                IN  /\ out.err = "OK"
                        => input.role \in {"ForensicTechnician", "EvidenceManager"}
                    /\ (input.role \notin {"ForensicTechnician", "EvidenceManager"}
                          /\ ~Falsy(input.evidenceId))
                        => out.err = "ACCESS_DENIED"
          /\ \A input \in RemoveInputs :
                LET out == RemoveEvidence(state, input, tx, 0)
                IN  /\ out.err = "OK" => input.role = "EvidenceManager"
                    /\ (input.role # "EvidenceManager" /\ ~Falsy(input.evidenceId))
                        => out.err = "ACCESS_DENIED"

\* one id has a record that is not removed and the other has none: a create
\* of the other, a check-in and a removal of the first succeed with an allowed
\* role and are denied without a role
C17_Witness ==
    \E evidenceId, other \in EvidenceIds, tx \in NextTxs :
        /\ Stored(state, evidenceId) /\ ~Removed(state, evidenceId)
        /\ ~Stored(state, other)
        /\ \E ok, denied \in CreateInputs :
              /\ ok.evidenceId = other /\ denied.evidenceId = other
              /\ denied.role = Absent /\ denied.caseIdHash = ok.caseIdHash
              /\ CreateEvidence(state, ok, tx, 0).err = "OK"
              /\ CreateEvidence(state, denied, tx, 0).err = "ACCESS_DENIED"
        /\ \E ok, denied \in CheckInInputs :
              /\ ok.evidenceId = evidenceId /\ denied.evidenceId = evidenceId
              /\ denied.role = "Unknown"
              /\ CheckInEvidence(state, ok, tx, 0).err = "OK"
              /\ CheckInEvidence(state, denied, tx, 0).err = "ACCESS_DENIED"
        /\ \E ok, denied \in RemoveInputs :
              /\ ok.evidenceId = evidenceId /\ denied.evidenceId = evidenceId
              /\ denied.role = "ForensicTechnician"
              /\ RemoveEvidence(state, ok, tx, 0).err = "OK"
              /\ RemoveEvidence(state, denied, tx, 0).err = "ACCESS_DENIED"

C19_CheckInEffects ==
    \A input \in CheckInInputs, tx \in NextTxs :
        CheckInChecks(state, input) = "OK"
        => LET evidenceId == input.evidenceId
               prior == Rec(state, evidenceId)
               out == CheckInEvidence(state, input, tx, 0)
               after == Commit(state, out)
               rec == Rec(after, evidenceId)
               events == ParsedEvents(after, evidenceId)
           IN  /\ out.err = "OK"
               /\ rec.status = "CHECKED_IN"
               /\ rec.currentCustodian =
                     (IF input.custodian \in {Absent, ""}
                      THEN prior.currentCustodian ELSE input.custodian)
               /\ rec.role = input.role
               /\ rec.updatedAt = now(tx)
               /\ EventsKept(state, after, evidenceId)
               /\ Cardinality(EventsUnder(after, evidenceId, tx.id)) = 1
               /\ \A i \in EventsUnder(after, evidenceId, tx.id) :
                     /\ events[i].eventType = "CHECKED_IN"
                     /\ events[i].toCustodian = rec.currentCustodian
                     /\ events[i].timestamp = now(tx)

\* the last transaction checked in, without naming a custodian, a record that
\* had been transferred before: the record is CHECKED_IN, still with the
\* custodian of the transfer, and carries the role of the technician
C19_Witness ==
    /\ Len(ledger) = 3
    /\ LastTx.fn = "CheckInEvidence"
    /\ ledger[2].fn = "TransferEvidence"
    /\ ledger[2].evidenceId = LastTx.evidenceId
    /\ LET rec == Rec(state, LastTx.evidenceId)
           events == ParsedEvents(state, LastTx.evidenceId)
       IN  /\ rec.status = "CHECKED_IN"
           /\ rec.currentCustodian = "Court"
           /\ rec.role = "ForensicTechnician"
           /\ rec.updatedAt = now(LastTx)
           /\ \E i \in EventsUnder(state, LastTx.evidenceId, LastTx.txId) :
                 /\ events[i].eventType = "CHECKED_IN"
                 /\ events[i].toCustodian = "Court"

\* C20: on a successful CreateEvidence with no currentCustodian supplied, the
\* record's currentCustodian is the creating actor recorded in createdBy
\* (performedBy, else createdBy, else "unknown"), and one CREATED event with
\* that actor as performedBy is appended
C20_CreateCustodian ==
    \A input \in IntakeInputs, tx \in NextTxs :
        (CreateChecks(state, input) = "OK" /\ input.currentCustodian \in {Absent, ""})
        => LET evidenceId == input.evidenceId
               actor == IF input.performedBy \notin {Absent, ""}
                        THEN input.performedBy
                        ELSE IF input.createdBy \notin {Absent, ""}
                             THEN input.createdBy
                        ELSE "unknown"
               out == CreateEvidence(state, input, tx, 0)
               after == Commit(state, out)
               rec == Rec(after, evidenceId)
               events == ParsedEvents(after, evidenceId)
           IN  /\ out.err = "OK"
               /\ rec.createdBy = actor
               /\ rec.currentCustodian = actor
               /\ Len(events) = 1
               /\ events[1].eventType = "CREATED"
               /\ events[1].performedBy = actor
               /\ events[1].txId = tx.id

\* two records were created without a first custodian, one by a request that
\* names nobody and one by a request that names only createdBy: each is in the
\* custody of its creating actor, who performed its CREATED event
C20_Witness ==
    \E first, second \in EvidenceIds :
        /\ Stored(state, first) /\ Stored(state, second)
        /\ Rec(state, first).createdBy = "unknown"
        /\ Rec(state, first).currentCustodian = "unknown"
        /\ ParsedEvents(state, first)[1].performedBy = "unknown"
        /\ Rec(state, second).createdBy = "bob"
        /\ Rec(state, second).currentCustodian = "bob"
        /\ ParsedEvents(state, second)[1].performedBy = "bob"
        /\ ParsedEvents(state, second)[1].eventType = "CREATED"

\* the puts a method has issued are the record write alone, or the record
\* write followed by the event append; none when the store refused the
\* record write
RecordThenEvent(out, evidenceId, tx, putFail) ==
    /\ Len(out.writes) = (CASE putFail = 1 -> 0 [] putFail = 2 -> 1 [] OTHER -> 2)
    /\ Len(out.writes) >= 1 => out.writes[1][1] = evidenceKey(evidenceId)
    /\ Len(out.writes) = 2 => out.writes[2][1] = evidenceEventKey(evidenceId, tx.id)
    /\ putFail = 1 =>
          /\ out.err = "STORE_ERROR"
          /\ \A i \in 1..Len(out.writes) :
                out.writes[i][1] # evidenceEventKey(evidenceId, tx.id)

\* C21: in every mutating operation the record write is issued before the
\* event append, and the event append is issued only after the record write
\* succeeded: if the record write fails no event is appended
C21_RecordBeforeEvent ==
    \A tx \in NextTxs, putFail \in PutFails :
        /\ \A input \in CreateInputs :
              CreateChecks(state, input) = "OK"
              => RecordThenEvent(CreateEvidence(state, input, tx, putFail),
                                 input.evidenceId, tx, putFail)
        /\ \A input \in CheckInInputs :
              CheckInChecks(state, input) = "OK"
              => RecordThenEvent(CheckInEvidence(state, input, tx, putFail),
                                 input.evidenceId, tx, putFail)
        /\ \A input \in TransferInputs :
              TransferChecks(state, input) = "OK"
              => RecordThenEvent(TransferEvidence(state, input, tx, putFail),
                                 input.evidenceId, tx, putFail)
        /\ \A input \in RemoveInputs :
              RemoveChecks(state, input) = "OK"
              => RecordThenEvent(RemoveEvidence(state, input, tx, putFail),
                                 input.evidenceId, tx, putFail)

\* a record that is not removed exists: a check-in and a transfer of it whose
\* record write the store refuses end without a put, and the last committed
\* transaction wrote its record first and its event second
C21_Witness ==
    \E evidenceId \in EvidenceIds, tx \in NextTxs :
        /\ Stored(state, evidenceId) /\ ~Removed(state, evidenceId)
        /\ LastTx.writes[1][1] = evidenceKey(LastTx.evidenceId)
        /\ LastTx.writes[2][1] = evidenceEventKey(LastTx.evidenceId, LastTx.txId)
        /\ \E input \in CheckInInputs :
              /\ input.evidenceId = evidenceId
              /\ CheckInChecks(state, input) = "OK"
              /\ CheckInEvidence(state, input, tx, 1).writes = <<>>
              /\ CheckInEvidence(state, input, tx, 1).err = "STORE_ERROR"
        /\ \E input \in TransferInputs :
              /\ input.evidenceId = evidenceId
              /\ TransferChecks(state, input) = "OK"
              /\ TransferEvidence(state, input, tx, 1).writes = <<>>
              /\ Len(TransferEvidence(state, input, tx, 2).writes) = 1

\* the keys of the stored events, of every evidence id
EventKeys(st) ==
    LET iter == getStateByPartialCompositeKey(st, "EVIDENCE_EVENT", <<>>)
    IN  {iter[i].key : i \in 1..Len(iter)}

\* every event stored under one of the keys is stored with the same content
\* afterwards
EventsUntouched(keys, before, after) ==
    \A key \in keys : key \in DOMAIN after /\ after[key] = before[key]

\* C22: the audit event log is append-only: the event a committed transaction
\* wrote under (evidenceId, transactionId) is present with identical content
\* in every later state, distinct transactions wrote distinct event keys, and
\* no operation, whatever its input, overwrites or deletes a stored event
C22_EventsAppendOnly ==
    /\ \A i \in 1..Len(ledger) :
          LET append == ledger[i].writes[2]
          IN  /\ append[1] = evidenceEventKey(ledger[i].evidenceId, ledger[i].txId)
              /\ append[1] \in DOMAIN state
              /\ state[append[1]] = append[2]
              /\ \A j \in 1..Len(ledger) :
                    i # j => ledger[j].writes[2][1] # append[1]
    /\ Cardinality(EventKeys(state)) = Len(ledger)
    /\ LET keys == EventKeys(state)
       IN  \A tx \in NextTxs, putFail \in PutFails :
              /\ \A input \in CreateInputs :
                    EventsUntouched(keys, state,
                        Commit(state, CreateEvidence(state, input, tx, putFail)))
              /\ \A input \in CheckInInputs :
                    EventsUntouched(keys, state,
                        Commit(state, CheckInEvidence(state, input, tx, putFail)))
              /\ \A input \in TransferInputs :
                    EventsUntouched(keys, state,
                        Commit(state, TransferEvidence(state, input, tx, putFail)))
              /\ \A input \in RemoveInputs :
                    EventsUntouched(keys, state,
                        Commit(state, RemoveEvidence(state, input, tx, putFail)))

\* three transitions on one id are committed and the event of the first is
\* stored as the first transaction wrote it
C22_Witness ==
    /\ Len(ledger) = 3
    /\ \A i \in 1..3 : ledger[i].evidenceId = ledger[1].evidenceId
    /\ Cardinality(EventKeys(state)) = 3
    /\ ledger[1].fn = "CreateEvidence"
    /\ ledger[3].fn = "RemoveEvidence"
    /\ state[ledger[1].writes[2][1]] = ledger[1].writes[2][2]
    /\ JSONparse(state[ledger[1].writes[2][1]], EventFields).eventType = "CREATED"

\* the event documents the committed transactions on one evidence id appended
AppendedFor(led, evidenceId) ==
    {led[i].writes[2][2] : i \in TxsOn(led, evidenceId)}

\* C23: GetEvidenceEvents(X) returns exactly the events whose evidenceId is X:
\* every event appended for X, once, never an event of another evidence id,
\* an id of which X is a string prefix included, and never a current-state
\* record
C23_EventsOfOneId ==
    \A evidenceId \in EvidenceIds :
        LET docs == EventsOf(state, evidenceId)
        IN  /\ {docs[i] : i \in 1..Len(docs)} = AppendedFor(ledger, evidenceId)
            /\ Len(docs) = Cardinality(TxsOn(ledger, evidenceId))
            /\ \A i \in 1..Len(docs) :
                  /\ JSONparse(docs[i], EventFields).evidenceId = evidenceId
                  /\ \A other \in EvidenceIds :
                        /\ other # evidenceId =>
                              docs[i] \notin AppendedFor(ledger, other)
                        /\ Stored(state, other) =>
                              docs[i] # state[evidenceKey(other)]

\* records and events exist for "E" and for "E1", of which "E" is a prefix,
\* and "E" has two events
C23_Witness ==
    /\ Stored(state, "E") /\ Stored(state, "E1")
    /\ Len(EventsOf(state, "E")) = 2
    /\ Len(EventsOf(state, "E1")) = 1
    /\ Cardinality(EventKeys(state)) = 3

\* C24: the machine does not enforce strict alternation: on a record whose
\* status is not REMOVED, whether CREATED, CHECKED_IN or TRANSFERRED,
\* CheckInEvidence by a ForensicTechnician or an EvidenceManager and
\* TransferEvidence by an EvidenceManager with a toCustodian both succeed
C24_NoStrictAlternation ==
    \A evidenceId \in EvidenceIds :
        Stored(state, evidenceId) /\ ~Removed(state, evidenceId) =>
            /\ RecordOf(state, evidenceId).status
                  \in {"CREATED", "CHECKED_IN", "TRANSFERRED"}
            /\ \A tx \in NextTxs :
                  /\ \A input \in CheckInInputs :
                        /\ input.evidenceId = evidenceId
                        /\ input.role \in {"ForensicTechnician", "EvidenceManager"}
                        => LET out == CheckInEvidence(state, input, tx, 0)
                           IN  /\ out.err = "OK"
                               /\ RecordOf(Commit(state, out), evidenceId).status
                                     = "CHECKED_IN"
                  /\ \A input \in TransferInputs :
                        /\ input.evidenceId = evidenceId
                        /\ input.role = "EvidenceManager"
                        /\ ~Falsy(input.toCustodian)
                        => LET out == TransferEvidence(state, input, tx, 0)
                           IN  /\ out.err = "OK"
                               /\ RecordOf(Commit(state, out), evidenceId).status
                                     = "TRANSFERRED"

\* a record that was checked in twice in a row, which a further check-in and
\* a transfer both accept, beside which a transferred or created record may
\* stand
C24_Witness ==
    /\ Len(ledger) = 3
    /\ ledger[2].fn = "CheckInEvidence"
    /\ ledger[3].fn = "CheckInEvidence"
    /\ ledger[2].evidenceId = ledger[3].evidenceId
    /\ RecordOf(state, ledger[3].evidenceId).status = "CHECKED_IN"
    /\ \E tx \in NextTxs :
          /\ \E input \in CheckInInputs :
                /\ input.evidenceId = ledger[3].evidenceId
                /\ CheckInEvidence(state, input, tx, 0).err = "OK"
          /\ \E input \in TransferInputs :
                /\ input.evidenceId = ledger[3].evidenceId
                /\ TransferEvidence(state, input, tx, 0).err = "OK"

\* the status changes of the state diagram as C25 lists them
LifecycleAsStated ==
    {<<"CREATED", "CHECKED_IN">>, <<"CREATED", "TRANSFERRED">>,
     <<"CHECKED_IN", "CHECKED_IN">>, <<"CHECKED_IN", "TRANSFERRED">>,
     <<"TRANSFERRED", "CHECKED_IN">>, <<"TRANSFERRED", "TRANSFERRED">>,
     <<"CHECKED_IN", "REMOVED">>, <<"TRANSFERRED", "REMOVED">>}

\* the status changes the methods make: a removal is accepted from every
\* status
Lifecycle ==
    LifecycleAsStated \cup {<<"CREATED", "REMOVED">>, <<"REMOVED", "REMOVED">>}

\* every two consecutive versions of the record of every id change the status
\* by one of the steps
VersionsFollow(steps) ==
    \A evidenceId \in EvidenceIds :
        LET history == HistoryOf(ledger, evidenceId)
        IN  /\ Len(history) >= 1 => history[1].value.status = "CREATED"
            /\ \A i \in 1..(Len(history) - 1) :
                  <<history[i].value.status, history[i + 1].value.status>> \in steps

\* C25 as stated: between consecutive versions of a record the status changes
\* only from CREATED to CHECKED_IN or TRANSFERRED, between CHECKED_IN and
\* TRANSFERRED or to themselves, and from CHECKED_IN or TRANSFERRED to REMOVED
C25_AsStated == VersionsFollow(LifecycleAsStated)

\* the version a method makes of a stored record follows the lifecycle
NextVersionFollows(out, evidenceId) ==
    out.err = "OK" =>
        <<RecordOf(state, evidenceId).status,
          RecordOf(Commit(state, out), evidenceId).status>> \in Lifecycle

\* C25: between consecutive versions of a record the status changes only from
\* CREATED to CHECKED_IN or TRANSFERRED, between CHECKED_IN and TRANSFERRED or
\* to themselves, and from any status, CREATED and REMOVED included, to
\* REMOVED; a record never returns to CREATED
C25_StatusLifecycle ==
    /\ VersionsFollow(Lifecycle)
    /\ \A tx \in NextTxs, putFail \in PutFails :
          /\ \A input \in CreateInputs :
                input.evidenceId \in EvidenceIds /\ Stored(state, input.evidenceId)
                    => CreateEvidence(state, input, tx, putFail).writes = <<>>
          /\ \A input \in CheckInInputs :
                NextVersionFollows(CheckInEvidence(state, input, tx, putFail),
                                   input.evidenceId)
          /\ \A input \in TransferInputs :
                NextVersionFollows(TransferEvidence(state, input, tx, putFail),
                                   input.evidenceId)
          /\ \A input \in RemoveInputs :
                NextVersionFollows(RemoveEvidence(state, input, tx, putFail),
                                   input.evidenceId)

\* a record removed straight after its creation and removed again
C25_Witness ==
    \E evidenceId \in EvidenceIds :
        LET history == HistoryOf(ledger, evidenceId)
        IN  /\ Len(history) = 3
            /\ history[1].value.status = "CREATED"
            /\ history[2].value.status = "REMOVED"
            /\ history[3].value.status = "REMOVED"
            /\ RecordOf(state, evidenceId).status = "REMOVED"

\* a removed record is still removed once the outcome of a method is committed
StaysRemoved(out, evidenceId) ==
    /\ Removed(Commit(state, out), evidenceId)
    /\ \A i \in 1..Len(out.writes) :
          out.writes[i][1] = evidenceKey(evidenceId) =>
              JSONparse(out.writes[i][2], RecordFields).status = "REMOVED"

\* C26: once the status of a record is REMOVED it is REMOVED in every later
\* state: every version after a REMOVED version is REMOVED, and no
\* CreateEvidence, CheckInEvidence, TransferEvidence or RemoveEvidence, on any
\* id and with any role, moves a removed record to another status
C26_RemovedStaysRemoved ==
    \A evidenceId \in EvidenceIds :
        /\ LET history == HistoryOf(ledger, evidenceId)
           IN  \A i \in 1..Len(history), j \in 1..Len(history) :
                  i < j /\ history[i].value.status = "REMOVED"
                      => history[j].value.status = "REMOVED"
        /\ Removed(state, evidenceId) =>
              \A tx \in NextTxs, putFail \in PutFails :
                  /\ \A input \in CreateInputs :
                        StaysRemoved(CreateEvidence(state, input, tx, putFail),
                                     evidenceId)
                  /\ \A input \in CheckInInputs :
                        StaysRemoved(CheckInEvidence(state, input, tx, putFail),
                                     evidenceId)
                  /\ \A input \in TransferInputs :
                        StaysRemoved(TransferEvidence(state, input, tx, putFail),
                                     evidenceId)
                  /\ \A input \in RemoveInputs :
                        StaysRemoved(RemoveEvidence(state, input, tx, putFail),
                                     evidenceId)

\* a record removed after a check-in, on which a further removal is accepted,
\* a creation by an allowed role is refused as a duplicate, and a check-in
\* and a transfer by an allowed role are refused for its state
C26_Witness ==
    \E evidenceId \in EvidenceIds, tx \in NextTxs :
        /\ Removed(state, evidenceId)
        /\ Len(HistoryOf(ledger, evidenceId)) = 3
        /\ HistoryOf(ledger, evidenceId)[2].value.status = "CHECKED_IN"
        /\ \E input \in RemoveInputs :
              /\ input.evidenceId = evidenceId
              /\ RemoveEvidence(state, input, tx, 0).err = "OK"
        /\ \E input \in CreateInputs :
              /\ input.evidenceId = evidenceId
              /\ CreateEvidence(state, input, tx, 0).err = "ALREADY_EXISTS"
        /\ \E input \in CheckInInputs :
              /\ input.evidenceId = evidenceId
              /\ CheckInEvidence(state, input, tx, 0).err = "INVALID_STATE"
        /\ \E input \in TransferInputs :
              /\ input.evidenceId = evidenceId
              /\ TransferEvidence(state, input, tx, 0).err = "INVALID_STATE"

\* the artifact of a record: whether its file is in the upload directory, and
\* the hash of that file
ArtifactExists(st, dir, evidenceId) ==
    /\ ~Falsy(Rec(st, evidenceId).imageFilename)
    /\ Rec(st, evidenceId).imageFilename \in DOMAIN dir

LocalHash(st, dir, evidenceId) ==
    hashFileSha256(dir[Rec(st, evidenceId).imageFilename])

\* C27: the integrity check of GET /api/evidence/:id is three-valued and
\* never conflates "cannot verify" with "tampered": tampered is true exactly
\* when the artifact exists, the recorded and the local hash are both present
\* and they differ; it is false exactly when the artifact exists and they are
\* equal; it is null when the file is absent, or no file name or no hash is
\* recorded, with imageExists = false when the file is absent; and the page
\* reports a tampering only for tampered = true
C27_ThreeValuedIntegrity ==
    /\ \A evidenceId \in EvidenceIds :
          Stored(state, evidenceId) =>
              LET data == GetEvidenceApi(state, uploads, evidenceId)
                  exists == ArtifactExists(state, uploads, evidenceId)
                  recorded == Rec(state, evidenceId).imageHash
              IN  /\ data.status = 200
                  /\ data.tampered \in {"true", "false", Null}
                  /\ data.tampered = "true" <=>
                        /\ exists
                        /\ ~Falsy(recorded)
                        /\ ~Falsy(LocalHash(state, uploads, evidenceId))
                        /\ recorded # LocalHash(state, uploads, evidenceId)
                  /\ data.tampered = "false" <=>
                        /\ exists
                        /\ recorded = LocalHash(state, uploads, evidenceId)
                  /\ ~exists \/ Falsy(recorded) => data.tampered = Null
                  /\ data.imageExists <=> exists
                  /\ ~exists => data.hashLocal = Null
                  /\ renderEvidenceResult(data) = "TAMPER DETECTED (Hash mismatch)"
                        <=> data.tampered = "true"
                  /\ renderEvidenceResult(data) = "VERIFIED (Hashes match)"
                        <=> data.tampered = "false"
    /\ reply.status = 200 =>
          reply = GetEvidenceApi(state, uploads, reply.evidence.evidenceId)

\* the server has answered for a record whose artifact was changed, and
\* beside it stand a record whose artifact is intact, or one whose file is
\* gone, or one with a file and no recorded hash
C27_Witness ==
    /\ reply.status = 200
    /\ reply.tampered = "true"
    /\ reply.imageExists
    /\ \E evidenceId \in EvidenceIds :
          /\ Stored(state, evidenceId)
          /\ GetEvidenceApi(state, uploads, evidenceId).tampered = Null
          /\ ~GetEvidenceApi(state, uploads, evidenceId).imageExists
          /\ ~Falsy(Rec(state, evidenceId).imageFilename)
          /\ ~Falsy(Rec(state, evidenceId).imageHash)

\* the last committed transaction on an evidence id that has one
LastOn(led, evidenceId) ==
    CHOOSE i \in TxsOn(led, evidenceId) : \A j \in TxsOn(led, evidenceId) : j <= i

\* a read method has returned without a write, and committing it changes
\* nothing
ReadOnly(st, out) ==
    /\ out.err = "OK"
    /\ out.writes = <<>>
    /\ Commit(st, out) = st

\* C28: GetEvidence(X) fails with NOT_FOUND exactly when no record for X was
\* ever created, and otherwise returns the record written by the most recent
\* committed mutating operation on X; GetEvidence, GetEvidenceHistory and
\* GetEvidenceEvents leave every record and every event unchanged
C28_GetEvidence ==
    \A evidenceId \in EvidenceIds \cup {""} :
        LET out == GetEvidence(state, evidenceId)
        IN  /\ out.err \in {"OK", "NOT_FOUND"}
            /\ out.err = "NOT_FOUND" <=>
                  TxsOf(ledger, "CreateEvidence", evidenceId) = {}
            /\ out.err = "NOT_FOUND" <=> TxsOn(ledger, evidenceId) = {}
            /\ out.err = "OK" =>
                  LET last == ledger[LastOn(ledger, evidenceId)]
                  IN  /\ last.writes[1][1] = evidenceKey(evidenceId)
                      /\ out.ret = <<last.writes[1][2]>>
            /\ out.writes = <<>>
            /\ Commit(state, out) = state
            /\ ReadOnly(state, GetEvidenceHistory(ledger, evidenceId))
            /\ ReadOnly(state, GetEvidenceEvents(state, evidenceId))

\* one record was created, checked in and transferred, and GetEvidence
\* returns it as transferred, while the other id was never created
C28_Witness ==
    \E evidenceId \in EvidenceIds, other \in EvidenceIds :
        /\ Cardinality(TxsOn(ledger, evidenceId)) = 3
        /\ LastTx.fn = "TransferEvidence"
        /\ GetEvidence(state, evidenceId).err = "OK"
        /\ GetEvidence(state, evidenceId).ret[1].status = "TRANSFERRED"
        /\ GetEvidence(state, evidenceId).ret[1].currentCustodian = "Court"
        /\ GetEvidence(state, other).err = "NOT_FOUND"

\* the errors the methods throw from their checks
CheckErrors ==
    {"VALIDATION_ERROR", "ACCESS_DENIED", "ALREADY_EXISTS", "NOT_FOUND",
     "INVALID_STATE"}

\* a method that failed a check, as the checks say, has issued no put, and its
\* transaction leaves the world state as it was; a method fails with one of
\* these errors only from its checks
FailsClean(out, checks) ==
    /\ checks # "OK" => out.err = checks /\ checks \in CheckErrors
    /\ out.err \in CheckErrors =>
          /\ checks = out.err
          /\ out.writes = <<>>
          /\ Commit(state, out) = state

\* C29: every mutating operation that fails with VALIDATION_ERROR,
\* ACCESS_DENIED, ALREADY_EXISTS, NOT_FOUND or INVALID_STATE leaves the whole
\* store unchanged: it writes no record of any evidence id and appends no
\* event, every check running before the first store write
C29_FailureWritesNothing ==
    \A tx \in NextTxs, putFail \in PutFails :
        /\ \A input \in CreateInputs :
              FailsClean(CreateEvidence(state, input, tx, putFail),
                         CreateChecks(state, input))
        /\ \A input \in CheckInInputs :
              FailsClean(CheckInEvidence(state, input, tx, putFail),
                         CheckInChecks(state, input))
        /\ \A input \in TransferInputs :
              FailsClean(TransferEvidence(state, input, tx, putFail),
                         TransferChecks(state, input))
        /\ \A input \in RemoveInputs :
              FailsClean(RemoveEvidence(state, input, tx, putFail),
                         RemoveChecks(state, input))

\* a removed record stands beside an id without a record, so that each of
\* the five errors is thrown by some request
C29_Witness ==
    \E evidenceId \in EvidenceIds, other \in EvidenceIds, tx \in NextTxs :
        /\ Removed(state, evidenceId)
        /\ ~Stored(state, other)
        /\ \E input \in CheckInInputs :
              /\ input.evidenceId = evidenceId
              /\ CheckInEvidence(state, input, tx, 0).err = "INVALID_STATE"
        /\ \E input \in CreateInputs :
              /\ input.evidenceId = evidenceId
              /\ CreateEvidence(state, input, tx, 0).err = "ALREADY_EXISTS"
        /\ \E input \in RemoveInputs :
              /\ input.evidenceId = other
              /\ RemoveEvidence(state, input, tx, 0).err = "NOT_FOUND"
        /\ \E input \in TransferInputs :
              /\ input.evidenceId = evidenceId
              /\ TransferEvidence(state, input, tx, 0).err = "VALIDATION_ERROR"
        /\ \E input \in TransferInputs :
              /\ input.evidenceId = evidenceId
              /\ TransferEvidence(state, input, tx, 0).err = "ACCESS_DENIED"

\* the fields of a record that CreateEvidence sets for good
CreationFields ==
    {"evidenceId", "caseIdHash", "description", "imageHash", "imageFilename",
     "createdBy", "createdAt"}

\* the fields in which two records differ
Changed(old, new) == {f \in RecordFields : old[f] # new[f]}

\* the record a method that returned has put, beside the stored one: only
\* fields of the set differ, and the document put has the members of the
\* stored document
ChangesOnly(out, evidenceId, fields) ==
    out.err = "OK" =>
        LET old == Rec(state, evidenceId)
            new == Rec(Commit(state, out), evidenceId)
        IN  /\ Changed(old, new) \subseteq fields
            /\ \A f \in CreationFields :
                  /\ new[f] = old[f]
                  /\ f \in DOMAIN Commit(state, out)[evidenceKey(evidenceId)]
                        <=> f \in DOMAIN state[evidenceKey(evidenceId)]

\* C30: evidenceId, caseIdHash, description, imageHash, imageFilename,
\* createdBy and createdAt of a record keep the values set by CreateEvidence
\* in every later version: CheckInEvidence and TransferEvidence change only
\* status, currentCustodian, role and updatedAt, and RemoveEvidence only
\* status, role and updatedAt, leaving currentCustodian unchanged
C30_CreationFieldsKept ==
    /\ \A evidenceId \in EvidenceIds :
          LET history == HistoryOf(ledger, evidenceId)
          IN  \A i \in 1..Len(history), f \in CreationFields :
                  JSONparse(history[i].value, RecordFields)[f]
                      = JSONparse(history[1].value, RecordFields)[f]
    /\ \A tx \in NextTxs, putFail \in PutFails :
          /\ \A input \in CheckInInputs :
                ChangesOnly(CheckInEvidence(state, input, tx, putFail),
                            input.evidenceId,
                            {"status", "currentCustodian", "role", "updatedAt"})
          /\ \A input \in TransferInputs :
                ChangesOnly(TransferEvidence(state, input, tx, putFail),
                            input.evidenceId,
                            {"status", "currentCustodian", "role", "updatedAt"})
          /\ \A input \in RemoveInputs :
                ChangesOnly(RemoveEvidence(state, input, tx, putFail),
                            input.evidenceId,
                            {"status", "role", "updatedAt"})

\* a record checked in by a technician under a new custodian, then removed
\* by a manager at a later time: status, role and updatedAt differ from the
\* version before, the custodian does not
C30_Witness ==
    \E evidenceId \in EvidenceIds :
        LET history == HistoryOf(ledger, evidenceId)
        IN  /\ Len(history) = 3
            /\ LastTx.fn = "RemoveEvidence"
            /\ history[1].value.currentCustodian # history[2].value.currentCustodian
            /\ history[2].value.currentCustodian = history[3].value.currentCustodian
            /\ Changed(JSONparse(history[2].value, RecordFields),
                       JSONparse(history[3].value, RecordFields))
                  = {"status", "role", "updatedAt"}
            /\ Rec(state, evidenceId).createdAt # Rec(state, evidenceId).updatedAt

\* the first of the four checks that fails, in the order required fields,
\* role, existence, state
FirstFailure(missingField, role, roles, existenceFails, existenceError,
             stateFails) ==
    IF missingField THEN "VALIDATION_ERROR"
    ELSE IF ~Allowed(role, roles) THEN "ACCESS_DENIED"
    ELSE IF existenceFails THEN existenceError
    ELSE IF stateFails THEN "INVALID_STATE"
    ELSE "OK"

\* the error of a method whose puts the store accepts, beside the first check
\* that fails
ReportsFirst(out, expected) ==
    /\ out.err = expected
    /\ expected # "OK" => out.writes = <<>>

\* C31: each mutating operation applies its checks in a fixed order and
\* reports the first that fails: required fields, then the role, then the
\* existence of the record (ALREADY_EXISTS for create, NOT_FOUND otherwise),
\* then the REMOVED state where the operation tests it; so an unauthorized
\* role on a missing or removed record gets ACCESS_DENIED, and a missing
\* required field gets VALIDATION_ERROR whatever the role
C31_CheckOrder ==
    \A tx \in NextTxs :
        /\ \A input \in CreateInputs :
              LET missing == Falsy(input.evidenceId) \/ Falsy(input.caseIdHash)
              IN  ReportsFirst(CreateEvidence(state, input, tx, 0),
                      FirstFailure(missing, input.role,
                          {"ForensicTechnician", "EvidenceManager"},
                          ~missing /\ Stored(state, input.evidenceId),
                          "ALREADY_EXISTS", FALSE))
        /\ \A input \in CheckInInputs :
              LET missing == Falsy(input.evidenceId)
              IN  ReportsFirst(CheckInEvidence(state, input, tx, 0),
                      FirstFailure(missing, input.role,
                          {"ForensicTechnician", "EvidenceManager"},
                          ~missing /\ ~Stored(state, input.evidenceId),
                          "NOT_FOUND",
                          ~missing /\ Removed(state, input.evidenceId)))
        /\ \A input \in TransferInputs :
              LET missing == Falsy(input.evidenceId) \/ Falsy(input.toCustodian)
              IN  ReportsFirst(TransferEvidence(state, input, tx, 0),
                      FirstFailure(missing, input.role, {"EvidenceManager"},
                          ~Falsy(input.evidenceId)
                              /\ ~Stored(state, input.evidenceId),
                          "NOT_FOUND",
                          ~Falsy(input.evidenceId)
                              /\ Removed(state, input.evidenceId)))
        /\ \A input \in RemoveInputs :
              LET missing == Falsy(input.evidenceId)
              IN  ReportsFirst(RemoveEvidence(state, input, tx, 0),
                      FirstFailure(missing, input.role, {"EvidenceManager"},
                          ~missing /\ ~Stored(state, input.evidenceId),
                          "NOT_FOUND", FALSE))

\* beside a removed record an id has no record: a check-in of the removed
\* record under the role Unknown and a removal of the missing one by a
\* technician are denied, and a transfer without toCustodian under the role
\* Unknown is a validation error
C31_Witness ==
    \E evidenceId \in EvidenceIds, other \in EvidenceIds, tx \in NextTxs :
        /\ Removed(state, evidenceId)
        /\ ~Stored(state, other)
        /\ \E input \in CheckInInputs :
              /\ input.evidenceId = evidenceId /\ input.role = "Unknown"
              /\ CheckInEvidence(state, input, tx, 0).err = "ACCESS_DENIED"
        /\ \E input \in RemoveInputs :
              /\ input.evidenceId = other /\ input.role = "ForensicTechnician"
              /\ RemoveEvidence(state, input, tx, 0).err = "ACCESS_DENIED"
        /\ \E input \in TransferInputs :
              /\ input.evidenceId = evidenceId /\ input.role = "Unknown"
              /\ input.toCustodian = Absent
              /\ TransferEvidence(state, input, tx, 0).err = "VALIDATION_ERROR"
        /\ \E input \in CreateInputs :
              /\ input.evidenceId = evidenceId
              /\ CreateEvidence(state, input, tx, 0).err = "ALREADY_EXISTS"

\* the record and the event a method that returned has put carry the role
ActsAs(out, role) ==
    out.err = "OK" =>
        /\ JSONparse(out.writes[1][2], RecordFields).role = role
        /\ JSONparse(out.writes[2][2], EventFields).role = role

\* C32: in every reachable state every TRANSFERRED and every REMOVED event,
\* and every record with status TRANSFERRED or REMOVED, carries the role
\* EvidenceManager, and every transfer and removal that succeeds next is
\* made under it: no technician and no undeclared role produces one
C32_ManagerOnly ==
    /\ \A evidenceId \in EvidenceIds :
          /\ \A event \in {ParsedEvents(state, evidenceId)[i] :
                              i \in 1..Len(ParsedEvents(state, evidenceId))} :
                event.eventType \in {"TRANSFERRED", "REMOVED"}
                    => event.role = "EvidenceManager"
          /\ Stored(state, evidenceId)
                /\ Rec(state, evidenceId).status \in {"TRANSFERRED", "REMOVED"}
                => Rec(state, evidenceId).role = "EvidenceManager"
    /\ \A tx \in NextTxs, putFail \in PutFails :
          /\ \A input \in TransferInputs :
                LET out == TransferEvidence(state, input, tx, putFail)
                IN  /\ ActsAs(out, "EvidenceManager")
                    /\ out.err = "OK" => input.role = "EvidenceManager"
          /\ \A input \in RemoveInputs :
                LET out == RemoveEvidence(state, input, tx, putFail)
                IN  /\ ActsAs(out, "EvidenceManager")
                    /\ out.err = "OK" => input.role = "EvidenceManager"

\* a record created by a technician was transferred and removed: both events
\* and the record carry the manager's role, and a removal and a transfer of
\* a record by a technician are denied
C32_Witness ==
    \E evidenceId \in EvidenceIds, tx \in NextTxs :
        /\ Len(ParsedEvents(state, evidenceId)) = 3
        /\ EventsTyped(state, evidenceId, "TRANSFERRED") # {}
        /\ EventsTyped(state, evidenceId, "REMOVED") # {}
        /\ \E i \in 1..3 :
              /\ ParsedEvents(state, evidenceId)[i].eventType = "CREATED"
              /\ ParsedEvents(state, evidenceId)[i].role = "ForensicTechnician"
        /\ Rec(state, evidenceId).role = "EvidenceManager"
        /\ \E input \in RemoveInputs :
              /\ input.evidenceId = evidenceId
              /\ input.role = "ForensicTechnician"
              /\ RemoveEvidence(state, input, tx, 0).err = "ACCESS_DENIED"

\* the roles the contract knows
DeclaredRoles == {"ForensicTechnician", "EvidenceManager"}

\* the stored events of every evidence id, parsed
StoredEvents(st) ==
    LET iter == getStateByPartialCompositeKey(st, "EVIDENCE_EVENT", <<>>)
    IN  [i \in 1..Len(iter) |-> JSONparse(iter[i].value, EventFields)]

\* every document a method has put carries the role of the request, which is
\* one of the two roles
WritesRequestRole(out, input) ==
    \A i \in 1..Len(out.writes) :
        /\ "role" \in DOMAIN out.writes[i][2]
        /\ out.writes[i][2].role = input.role
        /\ input.role \in DeclaredRoles

\* C33: in every reachable state the role of every stored record and of
\* every event is ForensicTechnician or EvidenceManager; the fallbacks, the
\* value "Unknown" at creation and the role of the stored record elsewhere,
\* are never written, the role check preceding every write
C33_RolesDeclared ==
    /\ \A i \in 1..Len(StoredRecords(state)) :
          StoredRecords(state)[i].role \in DeclaredRoles
    /\ \A i \in 1..Len(StoredEvents(state)) :
          StoredEvents(state)[i].role \in DeclaredRoles
    /\ \A tx \in NextTxs, putFail \in PutFails :
          /\ \A input \in CreateInputs :
                WritesRequestRole(CreateEvidence(state, input, tx, putFail), input)
          /\ \A input \in CheckInInputs :
                WritesRequestRole(CheckInEvidence(state, input, tx, putFail), input)
          /\ \A input \in TransferInputs :
                WritesRequestRole(TransferEvidence(state, input, tx, putFail), input)
          /\ \A input \in RemoveInputs :
                WritesRequestRole(RemoveEvidence(state, input, tx, putFail), input)

\* two records and three events are stored, under both roles, and requests
\* without a role and under the role Unknown are denied on a stored record
C33_Witness ==
    /\ Len(StoredRecords(state)) = 2
    /\ Len(StoredEvents(state)) = 3
    /\ {StoredEvents(state)[i].role : i \in 1..3} = DeclaredRoles
    /\ \E tx \in NextTxs, input \in CheckInInputs, other \in RemoveInputs :
          /\ input.evidenceId \in EvidenceIds
          /\ Stored(state, input.evidenceId)
          /\ input.role = Absent
          /\ CheckInEvidence(state, input, tx, 0).err = "ACCESS_DENIED"
          /\ other.evidenceId = input.evidenceId
          /\ other.role = "Unknown"
          /\ RemoveEvidence(state, other, tx, 0).err = "ACCESS_DENIED"

\* a method other than CreateEvidence that returned has put a record that is
\* not CREATED and an event that is not a CREATED event, on a stored record
AddsNoCreation(out, input) ==
    out.err = "OK" =>
        /\ Stored(state, input.evidenceId)
        /\ Len(out.writes) = 2
        /\ JSONparse(out.writes[1][2], RecordFields).status # "CREATED"
        /\ JSONparse(out.writes[2][2], EventFields).eventType # "CREATED"
        /\ JSONparse(out.writes[2][2], EventFields).evidenceId = input.evidenceId

\* C34: in every reachable state a record exists for an evidence id if and
\* only if exactly one CREATED event exists for that id; no id has two
\* CREATED events; a record with status CREATED has exactly one event; and
\* the next operation keeps it so: a creation that returns puts the record
\* and the one CREATED event of an id that had neither, every other
\* operation puts neither a CREATED record nor a CREATED event
C34_OneCreatedEvent ==
    /\ \A evidenceId \in EvidenceIds :
          LET created == EventsTyped(state, evidenceId, "CREATED")
          IN  /\ Cardinality(created) <= 1
              /\ Stored(state, evidenceId) <=> Cardinality(created) = 1
              /\ ~Stored(state, evidenceId) =>
                    ParsedEvents(state, evidenceId) = <<>>
              /\ Stored(state, evidenceId)
                    /\ Rec(state, evidenceId).status = "CREATED"
                    => Len(ParsedEvents(state, evidenceId)) = 1
              /\ \A tx \in NextTxs, putFail \in PutFails :
                    \A input \in CreateInputs :
                        LET out == CreateEvidence(state, input, tx, putFail)
                        IN  input.evidenceId = evidenceId /\ out.err = "OK" =>
                                /\ ~Stored(state, evidenceId)
                                /\ created = {}
                                /\ Len(out.writes) = 2
                                /\ out.writes[1][1] = evidenceKey(evidenceId)
                                /\ JSONparse(out.writes[2][2], EventFields).eventType
                                      = "CREATED"
                                /\ JSONparse(out.writes[2][2], EventFields).evidenceId
                                      = evidenceId
    /\ \A tx \in NextTxs, putFail \in PutFails :
          /\ \A input \in CheckInInputs :
                AddsNoCreation(CheckInEvidence(state, input, tx, putFail), input)
          /\ \A input \in TransferInputs :
                AddsNoCreation(TransferEvidence(state, input, tx, putFail), input)
          /\ \A input \in RemoveInputs :
                AddsNoCreation(RemoveEvidence(state, input, tx, putFail), input)

\* one id has a record in status CREATED with its one event, the other a
\* checked-in record with two events of which one is the CREATED event, and
\* a second creation of the first is refused
C34_Witness ==
    \E evidenceId \in EvidenceIds, other \in EvidenceIds, tx \in NextTxs :
        /\ Stored(state, evidenceId)
        /\ Rec(state, evidenceId).status = "CHECKED_IN"
        /\ Len(ParsedEvents(state, evidenceId)) = 2
        /\ Cardinality(EventsTyped(state, evidenceId, "CREATED")) = 1
        /\ Stored(state, other)
        /\ Rec(state, other).status = "CREATED"
        /\ Len(ParsedEvents(state, other)) = 1
        /\ \E input \in CreateInputs :
              /\ input.evidenceId = other
              /\ CreateEvidence(state, input, tx, 0).err = "ALREADY_EXISTS"

\* a record and an event that agree in status, time and role
Agree(rec, event) ==
    /\ rec.status = event.eventType
    /\ rec.updatedAt = event.timestamp
    /\ rec.role = event.role

\* the record and the event a method that returned has put agree
PutsAgree(out) ==
    out.err = "OK" =>
        /\ Len(out.writes) = 2
        /\ Agree(JSONparse(out.writes[1][2], RecordFields),
                 JSONparse(out.writes[2][2], EventFields))

\* C35: in every reachable state the current record of an evidence id agrees
\* with the event committed last for that id, which is stored: the status of
\* the record is the type of the event, its updatedAt the timestamp of the
\* event, its role the role of the event; and every operation that returns
\* next puts a record and an event that agree
C35_RecordAgreesWithLastEvent ==
    /\ \A evidenceId \in EvidenceIds :
          Stored(state, evidenceId) =>
              LET last == ledger[LastOn(ledger, evidenceId)]
                  event == JSONparse(last.writes[2][2], EventFields)
              IN  /\ TxsOn(ledger, evidenceId) # {}
                  /\ last.writes[2][1] \in DOMAIN state
                  /\ state[last.writes[2][1]] = last.writes[2][2]
                  /\ event.txId = last.txId
                  /\ event.evidenceId = evidenceId
                  /\ Agree(Rec(state, evidenceId), event)
    /\ \A tx \in NextTxs, putFail \in PutFails :
          /\ \A input \in CreateInputs :
                PutsAgree(CreateEvidence(state, input, tx, putFail))
          /\ \A input \in CheckInInputs :
                PutsAgree(CheckInEvidence(state, input, tx, putFail))
          /\ \A input \in TransferInputs :
                PutsAgree(TransferEvidence(state, input, tx, putFail))
          /\ \A input \in RemoveInputs :
                PutsAgree(RemoveEvidence(state, input, tx, putFail))

\* a record created by a technician at one time and transferred by a manager
\* at another: the record carries the status, the time and the role of the
\* TRANSFERRED event and not those of the CREATED event
C35_Witness ==
    \E evidenceId \in EvidenceIds :
        /\ Cardinality(TxsOn(ledger, evidenceId)) = 2
        /\ LastTx.evidenceId = evidenceId
        /\ LastTx.fn = "TransferEvidence"
        /\ LET events == ParsedEvents(state, evidenceId)
               created == events[CHOOSE i \in 1..2 : events[i].eventType = "CREATED"]
           IN  /\ Len(events) = 2
               /\ created.role = "ForensicTechnician"
               /\ created.timestamp # Rec(state, evidenceId).updatedAt
               /\ Rec(state, evidenceId).role = "EvidenceManager"
               /\ Rec(state, evidenceId).status = "TRANSFERRED"

\* the committed check-ins and transfers of an evidence id
CustodyTxs(led, evidenceId) ==
    TxsOf(led, "CheckInEvidence", evidenceId)
        \cup TxsOf(led, "TransferEvidence", evidenceId)

\* the custodian the committed transactions leave an id with: the toCustodian
\* of the event of the last check-in or transfer, or the custodian of the
\* record its creation wrote
CustodianByEvents(led, evidenceId) ==
    IF CustodyTxs(led, evidenceId) = {}
    THEN LET created == CHOOSE i \in TxsOf(led, "CreateEvidence", evidenceId) : TRUE
         IN  JSONparse(led[created].writes[1][2], RecordFields).currentCustodian
    ELSE LET last == CHOOSE i \in CustodyTxs(led, evidenceId) :
                        \A j \in CustodyTxs(led, evidenceId) : j <= i
         IN  JSONparse(led[last].writes[2][2], EventFields).toCustodian

\* a check-in or transfer that returned has put a record whose custodian is
\* not empty and is the toCustodian of the event it has put
PutsCustodian(out) ==
    out.err = "OK" =>
        /\ ~Falsy(JSONparse(out.writes[1][2], RecordFields).currentCustodian)
        /\ JSONparse(out.writes[1][2], RecordFields).currentCustodian
              = JSONparse(out.writes[2][2], EventFields).toCustodian

\* C36: in every reachable state the currentCustodian of a record is not
\* empty and is the toCustodian of the CHECKED_IN or TRANSFERRED event
\* committed last for the id, or the custodian set at creation when there is
\* none; a removal does not change it; and whatever actor fields a creation
\* carries, the custodian it sets is not empty
C36_CurrentCustodian ==
    /\ \A evidenceId \in EvidenceIds :
          Stored(state, evidenceId) =>
              /\ ~Falsy(Rec(state, evidenceId).currentCustodian)
              /\ TxsOf(ledger, "CreateEvidence", evidenceId) # {}
              /\ Rec(state, evidenceId).currentCustodian
                    = CustodianByEvents(ledger, evidenceId)
    /\ \A tx \in NextTxs :
          /\ \A input \in IntakeInputs :
                LET out == CreateEvidence(state, input, tx, 0)
                IN  out.err = "OK" =>
                       ~Falsy(JSONparse(out.writes[1][2], RecordFields).currentCustodian)
          /\ \A input \in CheckInInputs :
                PutsCustodian(CheckInEvidence(state, input, tx, 0))
          /\ \A input \in TransferInputs :
                PutsCustodian(TransferEvidence(state, input, tx, 0))
          /\ \A input \in RemoveInputs :
                LET out == RemoveEvidence(state, input, tx, 0)
                IN  out.err = "OK" =>
                       /\ JSONparse(out.writes[1][2], RecordFields).currentCustodian
                             = Rec(state, input.evidenceId).currentCustodian
                       /\ JSONparse(out.writes[2][2], EventFields).toCustodian = Absent

\* a record created in the hands of its creator, checked in to the lab and
\* then removed: it is still with the lab, as the CHECKED_IN event says
C36_Witness ==
    \E evidenceId \in EvidenceIds :
        /\ Len(ledger) = 3
        /\ ledger[1].fn = "CreateEvidence"
        /\ ledger[2].fn = "CheckInEvidence"
        /\ ledger[3].fn = "RemoveEvidence"
        /\ \A i \in 1..3 : ledger[i].evidenceId = evidenceId
        /\ JSONparse(ledger[2].writes[2][2], EventFields).toCustodian = "LabA"
        /\ JSONparse(ledger[1].writes[1][2], RecordFields).currentCustodian = "alice"
        /\ Rec(state, evidenceId).currentCustodian = "LabA"
        /\ Rec(state, evidenceId).status = "REMOVED"

\* C37: GetEvidenceEvents on an evidence id that was never created does not
\* fail: it returns the empty sequence, where GetEvidence fails with
\* NOT_FOUND; the client wrapper getEvidenceEventsFromChain yields the empty
\* list for it, as it does for a result without bytes, and the events
\* themselves for an id that has some
C37_EventsOfUnknownId ==
    /\ \A evidenceId \in EvidenceIds \cup {""} :
          LET out == GetEvidenceEvents(state, evidenceId)
          IN  /\ out.err = "OK"
              /\ getEvidenceEventsFromChain(resultBuffer(out.ret)) = out.ret
              /\ TxsOn(ledger, evidenceId) = {} =>
                    /\ out.ret = <<>>
                    /\ GetEvidence(state, evidenceId).err = "NOT_FOUND"
                    /\ resultBuffer(out.ret).length > 0
                    /\ getEvidenceEventsFromChain(resultBuffer(out.ret)) = <<>>
              /\ TxsOn(ledger, evidenceId) # {} => out.ret # <<>>
    /\ getEvidenceEventsFromChain(EmptyBuffer) = <<>>

\* one id has two events, which the wrapper hands on, and the other was never
\* created: its events are the empty list and GetEvidence fails
C37_Witness ==
    \E evidenceId \in EvidenceIds, other \in EvidenceIds :
        /\ Len(getEvidenceEventsFromChain(
                   resultBuffer(GetEvidenceEvents(state, evidenceId).ret))) = 2
        /\ TxsOn(ledger, other) = {}
        /\ GetEvidenceEvents(state, other).err = "OK"
        /\ GetEvidenceEvents(state, other).ret = <<>>
        /\ GetEvidence(state, other).err = "NOT_FOUND"

\* the create requests a client of the API may send, with every way of
\* leaving a field out
AnyPostEvidenceRequests ==
    [evidenceId : EvidenceIdIn, caseId : CaseIdIn,
     description : {Absent, "phone"}, role : RoleIn,
     userId : {Absent, "carol"}, file : {Absent} \cup ContentIn]

\* C38: a create request through the API that carries no role never produces
\* a ledger record or event: the API answers 400 when the request lacks an
\* id, a case id or a file, and otherwise submits CreateEvidence under the
\* role "Unknown", which the contract refuses with ACCESS_DENIED, and
\* answers with the error status 500; the world state stays as it is
C38_NoRoleNoRecord ==
    \A req \in AnyPostEvidenceRequests, filename \in UploadNames,
       tx \in NextTxs, putFail \in PutFails :
        Falsy(req.role) =>
            LET done == PostEvidence(state, req, filename, tx, putFail)
            IN  /\ done.response.status \in {400, 500}
                /\ ~Falsy(done.response.error)
                /\ done.outcome.writes = <<>>
                /\ Commit(state, done.outcome) = state
                /\ done.response.status = 400 <=> EvidenceRefused(req)
                /\ done.response.status = 400 => done.submitted = <<>>
                /\ done.response.status = 500 =>
                      /\ Len(done.submitted) = 1
                      /\ done.submitted[1].fn = "CreateEvidence"
                      /\ done.submitted[1].input.role = "Unknown"
                      /\ done.outcome.err = "ACCESS_DENIED"

\* the server has stored an upload and answered with an error while the
\* ledger is empty, as it does for a complete request without a role, which
\* a request with a role would have turned into a record
C38_Witness ==
    /\ reply = [status |-> 500, error |-> "Failed to create evidence"]
    /\ ledger = <<>>
    /\ state = <<>>
    /\ "f1" \in DOMAIN uploads
    /\ \E req \in PostEvidenceRequests, tx \in NextTxs :
          /\ req.role = Absent
          /\ PostEvidence(state, req, "f1", tx, 0).outcome.err = "ACCESS_DENIED"
          /\ PostEvidence(state, [req EXCEPT !.role = "ForensicTechnician"],
                          "f1", tx, 0).outcome.err = "OK"

\* the action requests a client of the API may send
AnyActionRequests ==
    [actionType : ActionTypeIn \cup {""}, role : RoleIn,
     userId : {Absent, "carol"}, custodian : CustodianIn,
     fromCustodian : {Absent}, toCustodian : ToCustodianIn, notes : {Absent}]

\* the contract method an action type stands for
MethodOf(actionType) ==
    CASE actionType = "CHECKIN" -> "CheckInEvidence"
      [] actionType = "TRANSFER" -> "TransferEvidence"
      [] actionType = "REMOVE" -> "RemoveEvidence"

\* C39: the action endpoint of the API submits at most one ledger
\* transaction per request and only for a known action, CHECKIN as
\* CheckInEvidence, TRANSFER as TransferEvidence, REMOVE as RemoveEvidence,
\* on the id of the request; a missing or unknown actionType, and a TRANSFER
\* without toCustodian, is answered 400 without any submission, and the
\* world state stays as it is
C39_OneKnownAction ==
    \A evidenceId \in EvidenceIds, body \in AnyActionRequests, tx \in NextTxs :
        LET done == PostAction(state, evidenceId, body, tx, 0)
            known == body.actionType \in {"CHECKIN", "TRANSFER", "REMOVE"}
            refused == \/ ~known
                       \/ body.actionType = "TRANSFER"
                             /\ body.toCustodian \in {Absent, ""}
        IN  /\ Len(done.submitted) <= 1
            /\ refused =>
                  /\ done.response.status = 400
                  /\ done.submitted = <<>>
                  /\ done.outcome = NotSubmitted
                  /\ Commit(state, done.outcome) = state
            /\ ~refused =>
                  /\ Len(done.submitted) = 1
                  /\ done.submitted[1].fn = MethodOf(body.actionType)
                  /\ done.submitted[1].input.evidenceId = evidenceId
                  /\ done.response.status \in {200, 500}
                  /\ done.response.status = 200 <=> done.outcome.err = "OK"
                  /\ done.outcome
                        = submitEvidenceActionOnChain(state,
                              MethodOf(body.actionType),
                              done.submitted[1].input, tx, 0)

\* a record was checked in through the API, and the server has just refused
\* a transfer of it that names no new custodian; the same transfer to the
\* court by a manager would be submitted and applied
C39_Witness ==
    /\ reply = [status |-> 400, error |-> "toCustodian is required for TRANSFER"]
    /\ Len(ledger) = 2
    /\ LastTx.fn = "CheckInEvidence"
    /\ Rec(state, LastTx.evidenceId).status = "CHECKED_IN"
    /\ \E body \in ActionRequests, tx \in NextTxs :
          /\ body.actionType = "TRANSFER"
          /\ body.toCustodian = "Court"
          /\ PostAction(state, LastTx.evidenceId, body, tx, 0).response.status = 200
          /\ PostAction(state, LastTx.evidenceId,
                        [body EXCEPT !.toCustodian = Absent], tx, 0).submitted = <<>>
          /\ PostAction(state, LastTx.evidenceId,
                        [body EXCEPT !.actionType = "CHECKOUT"], tx, 0)
                .response.status = 400

====
